---- MODULE Spec2Model ----
(***************************************************************************)
(* Booking lifecycle of the voice-studio backend: POST/PUT/DELETE          *)
(* /bookings with their policy middleware, the admin status update and     *)
(* the Stripe payment signals, over the shared SQLite store; make-up       *)
(* lessons, recurring billing, availability, payments and the Google       *)
(* Calendar sync follow in their own sections.                             *)
(*                                                                         *)
(* Time is counted in seconds since 2025-11-01T00:00:00Z.  The server      *)
(* runs in UTC, so Date.getMonth()/getFullYear() and SQLite's strftime()   *)
(* on the stored ISO strings see the same calendar.  A handler is cut at   *)
(* its awaits: a step is one awaited statement (a SELECT, INSERT or UPDATE *)
(* of the store, a call of Google or Stripe) together with the synchronous *)
(* code that follows it up to the next await.  A request enters with the   *)
(* first awaited statement that reads or writes the modelled store, after  *)
(* authenticateToken has looked the user of the token up and set req.user. *)
(***************************************************************************)
EXTENDS Integers, Sequences, FiniteSets, TLC

VARIABLES now, bookings, payments, settings, reqs, last, ops,
          makeups, sessions, recurring, cycles, google, events, answer,
          sync_log, notices, phones, twilio

(* the tables and services beside the booking lifecycle: make-up lessons   *)
(* and Saturday sessions, recurring bookings and their billing cycles, the *)
(* stored Google token, the instructor's Google Calendar, the last answer  *)
(* of an availability request, the calendar_sync_log table, the text       *)
(* overdue notices Twilio accepted, the column users.phone, and whether    *)
(* TwilioService has a client.  The notifications table, which every text  *)
(* message is logged to, is not part of the modelled store.                *)
aside == <<makeups, sessions, recurring, cycles, google, events, answer,
           sync_log, notices,
                   phones, twilio>>

vars == <<now, bookings, payments, settings, reqs, last, ops, aside>>

----------------------------------------------------------------------------
(* Bounds of the model *)

NumWorkers == 2
MaxBookings == 2
MaxPayments == 2
MaxOps == 2
MaxReschedOps == 2
MaxCancelOps == 3
MaxConflictOps == 2
MaxMakeups == 3
MaxMakeupOps == 3
MaxRecurring == 2
MaxBillingOps == 2
MaxRefresh == 2
MaxPaymentOps == 4
MaxSyncOps == 2
MaxPushOps == 2
MaxClientOps == 2
MaxOverdueOps == 1
MaxSweepOps == 2
MaxSyncLog == 1
MaxSessions == 2
MaxAvailOps == 2

Workers == 1..NumWorkers
Users == {1, 2}

(* an absent body field (undefined), a NULL column, and NaN *)
NoDate == -1
Null == -1
NaN == -1

SecondsPerHour == 60 * 60
SecondsPerDay == 24 * SecondsPerHour

(* 2025-11-10T14:00Z, 2025-11-10T15:00Z, 2025-11-25T10:00Z (Thanksgiving   *)
(* break), 2025-11-30T10:00Z (last day of the month), 2025-12-01T10:00Z    *)
Nov10_14 == 9 * SecondsPerDay + 14 * SecondsPerHour
Nov10_15 == 9 * SecondsPerDay + 15 * SecondsPerHour
Nov25_10 == 24 * SecondsPerDay + 10 * SecondsPerHour
Nov30_10 == 29 * SecondsPerDay + 10 * SecondsPerHour
Dec01_10 == 30 * SecondsPerDay + 10 * SecondsPerHour
LessonTimes == {Nov10_14, Nov10_15, Nov25_10, Nov30_10, Dec01_10}
validStatuses == {"pending", "confirmed", "completed", "cancelled",
                  "rescheduled"}
BodyDates == LessonTimes \cup {NoDate}
(* values of the undocumented body field new_date: absent, a free day of   *)
(* November, a blackout day, a day of December                             *)
NewDates == {NoDate, Nov30_10, Nov25_10, Dec01_10}
Durations == {45, 60}
(* values of the body field duration: absent, the two lesson lengths, and  *)
(* a length that is not offered                                            *)
NoDuration == 0
BodyDurations == {NoDuration, 45, 60, 90}

(* instants the clock visits: exactly 24 h before the 14:00 lesson          *)
(* (2025-11-09T14:00:00Z), one second later, and the lesson start itself   *)
ClockStart == Nov10_14 - 24 * SecondsPerHour
ClockPoints == {ClockStart, ClockStart + 1, Nov10_14}

----------------------------------------------------------------------------
(* Calendar conversions *)

(* new Date(x).toISOString().split('T')[0], as a day number (Nov 1 = 0) *)
UTCDate(t) == t \div SecondsPerDay

SecondsPerMinute == 60

(* addMinutes(date, amount) *)
addMinutes(t, amount) == t + amount * SecondsPerMinute

(* new Date(`${date}T${HH:mm}:00`) for a setting of minutes after midnight *)
DayTime(date, minutes) == addMinutes(date * SecondsPerDay, minutes)

(* Date.getMonth(): 0-based month, NaN for an Invalid Date *)
getMonth(t) == IF t = NoDate THEN NaN
               ELSE IF t < 30 * SecondsPerDay THEN 10 ELSE 11

(* Date.getFullYear() *)
getFullYear(t) == IF t = NoDate THEN NaN ELSE 2025

(* JavaScript === / !== on numbers: NaN equals nothing *)
StrictEq(a, b) == a # NaN /\ b # NaN /\ a = b

(* strftime('%m', lesson_date) as a number 1..12 *)
strftimeMonth(t) == IF t < 30 * SecondsPerDay THEN 11 ELSE 12

(* strftime('%Y', lesson_date) *)
strftimeYear(t) == 2025

(* seeded blackout_dates rows inside the modelled weeks: Thanksgiving      *)
(* Break 2025-11-24 .. 2025-11-29                                          *)
blackout_dates == {[start_date |-> 23, end_date |-> 28, is_active |-> TRUE]}

(* default settings rows *)
DefaultSettings == [cancellation_policy_hours |-> 24,
                    max_reschedules_per_month |-> 2,
                    lesson_45_price |-> 80,
                    lesson_60_price |-> 95,
                    booking_advance_hours |-> 24,
                    max_pending_makeups |-> 2,
                    lesson_30_price |-> 60,
                    academic_year_end |-> 20260630,
                    business_hours_start |-> 9 * 60,
                    business_hours_end |-> 18 * 60]

----------------------------------------------------------------------------
(* Store queries *)

BookingIds == 1..Len(bookings)

(* the lookup by id alone *)
OwnedBooking_AnyUser(id, u) == id \in BookingIds

(* SELECT * FROM bookings WHERE id = ? AND user_id = ? *)
OwnedBooking(id, u) == id \in BookingIds /\ bookings[id].user_id = u

(* status NOT IN ('cancelled', 'completed') *)
BlocksSlot(b) == b.status \notin {"cancelled", "completed"}

(* SELECT id FROM bookings WHERE lesson_date = ? AND status NOT IN (...) *)
CreateConflict(t) ==
    \E i \in BookingIds : bookings[i].lesson_date = t /\ BlocksSlot(bookings[i])

(* ... AND id != ? *)
RescheduleConflict(t, id) ==
    \E i \in BookingIds :
        bookings[i].lesson_date = t /\ BlocksSlot(bookings[i]) /\ i # id

(* SELECT * FROM blackout_dates WHERE is_active = 1 AND ? BETWEEN ... *)
BlackoutConflict(day) ==
    \E r \in blackout_dates :
        r.is_active /\ r.start_date <= day /\ day <= r.end_date

(* checkBlackoutDates: TRUE iff the request is answered 400 *)
checkBlackoutDates(lesson_date, new_date) ==
    LET dateToCheck == IF new_date # NoDate THEN new_date ELSE lesson_date
    IN  dateToCheck # NoDate /\ BlackoutConflict(UTCDate(dateToCheck))

(* SELECT COUNT FROM bookings WHERE user_id = ? AND reschedule_count > 0 *)
(* AND strftime('%m', lesson_date) = ? AND strftime('%Y', lesson_date) = ?  *)
RescheduleCountQuery(u, m, y) ==
    Cardinality({i \in BookingIds :
        /\ bookings[i].user_id = u
        /\ bookings[i].reschedule_count > 0
        /\ strftimeMonth(bookings[i].lesson_date) = m
        /\ strftimeYear(bookings[i].lesson_date) = y})

(* const price = duration === 45 ? 70.00 : 85.00 *)
CreatePrice(duration) == IF duration = 45 THEN 70 ELSE 85

(* the window test with the boundary excluded *)
CancellationAllowed_Strict(lesson_date, t, policyHours) ==
    lesson_date - t > policyHours * SecondsPerHour

(* hoursUntilLesson >= policyHours, on whole seconds *)
CancellationAllowed(lesson_date, t, policyHours) ==
    lesson_date - t >= policyHours * SecondsPerHour

----------------------------------------------------------------------------
(* Requests in flight *)

(* what a handler keeps in its local variables between two awaits *)
Idle == [pc |-> "idle", user |-> 0, id |-> 0, lesson_date |-> NoDate,
         new_date |-> NoDate, duration |-> 0, price |-> 0, saved |-> NoDate,
         session |-> 0, frequency |-> "", cursor |-> 0, end_date |-> 0,
         call |-> "", event |-> Null, attempts |-> 0, synced |-> FALSE,
         date |-> 0, busy |-> {}, slots |-> << >>, limit |-> 0,
         origin |-> "", queue |-> << >>, startHour |-> 0, endHour |-> 0,
         reason |-> FALSE, complete |-> FALSE]

NoResponse == [op |-> "none", id |-> 0, result |-> "none"]

Response(op, id, result) == [op |-> op, id |-> id, result |-> result]

InFlight(pcs) == Cardinality({w \in Workers : reqs[w].pc \in pcs})

(* a new request is taken by the first free worker *)
FreeWorker(w) ==
    /\ reqs[w].pc = "idle"
    /\ \A v \in Workers : v < w => reqs[v].pc # "idle"

(* no Google token stored, users.calendar_sync_enabled at its default 0 *)
NoGoogle == [connected |-> FALSE, access_token |-> 0, isInitialized |-> FALSE,
             calendar_sync_enabled |-> FALSE]

NoAnswer == [route |-> "none", date |-> 0, duration |-> 0, busy |-> {},
             slots |-> << >>]

(* SQL NULL in the text column users.phone, which PUT /users/profile       *)
(* stores when the body has no phone                                       *)
NoPhone == "NULL"

(* seedDatabase: the administrator, user 1, and the demo client, user 2,   *)
(* are both inserted with a phone number                                   *)
SeededPhones ==
    [u \in Users |-> IF u = 1 THEN "(858) 539-5946" ELSE "+1987654321"]

(* empty make-up, recurring and billing tables, an empty calendar, the     *)
(* seeded users, Twilio configured                                         *)
AsideInit ==
    /\ makeups = << >>
    /\ sessions = << >>
    /\ recurring = << >>
    /\ cycles = << >>
    /\ google = NoGoogle
    /\ events = {}
    /\ answer = NoAnswer
    /\ sync_log = << >>
    /\ notices = {}
    /\ phones = SeededPhones
    /\ twilio = TRUE

(* instants at which the server was started on its empty database file:    *)
(* 2025-11-03T09:00Z and the instant the clock starts at                   *)
Nov03_09 == 2 * SecondsPerDay + 9 * SecondsPerHour
StartTimes == {Nov03_09, ClockStart}

(* futureDate.setDate(getDate() + 7); futureDate.setHours(14, 0, 0, 0) *)
seedLessonDate(started) ==
    (UTCDate(started) + 7) * SecondsPerDay + 14 * SecondsPerHour

(* seedDatabase: the sample booking of the demo client, who is user 2      *)
(* (the administrator is inserted first)                                   *)
seedDatabase(started) ==
    [user_id |-> 2, lesson_date |-> seedLessonDate(started), duration |-> 60,
     price |-> 85, status |-> "confirmed", reschedule_count |-> 0,
     original_date |-> Null, cancellation_reason |-> "",
     google_calendar_event_id |-> Null, created_at |-> started]

(* startServer: createTables, then seedDatabase *)
Init ==
    /\ AsideInit
    /\ now = ClockStart
    /\ \E started \in StartTimes : bookings = <<seedDatabase(started)>>
    /\ payments = << >>
    /\ settings = DefaultSettings
    /\ reqs = [w \in Workers |-> Idle]
    /\ last = NoResponse
    /\ ops = 0

(* time passes *)
Tick ==
    /\ \E t \in ClockPoints : t > now /\ now' = t
    /\ UNCHANGED <<bookings, payments, settings, reqs, last, ops, aside>>

(* the request of worker w is answered without a further step *)
Reply(w, op, id, result) ==
    /\ last' = Response(op, id, result)
    /\ reqs' = [reqs EXCEPT ![w] = Idle]

(* request r enters a GoogleCalendarService method (getBusyTimes,          *)
(* createBookingEvent, updateBookingEvent, deleteBookingEvent): under      *)
(* if (!this.isInitialized) it awaits initialize(), whose first statement  *)
(* is the SELECT of the stored credentials; otherwise it awaits its call   *)
(* of the Google API                                                       *)
CallingGoogle(r, call, event) ==
    [r EXCEPT !.pc = IF google.isInitialized THEN "gcal_call" ELSE "gcal_init",
              !.call = call, !.event = event, !.attempts = 0,
              !.synced = FALSE, !.origin = ""]

----------------------------------------------------------------------------
(* POST /bookings *)

(* what the handler answers before its conflict read, "next" if it goes on *)
CreateOutcome(lesson_date, new_date, duration) ==
    IF checkBlackoutDates(lesson_date, new_date) THEN "blackout"
    ELSE IF lesson_date = NoDate \/ duration = NoDuration THEN "validation"
    ELSE IF lesson_date <= now THEN "past"
    ELSE "next"

(* a row as INSERT INTO bookings (user_id, lesson_date, duration, price,   *)
(* notes, status) VALUES (?, ?, ?, ?, ?, 'pending') leaves it at instant t *)
InsertedBooking(u, lesson_date, duration, price, t) ==
    [user_id |-> u, lesson_date |-> lesson_date, duration |-> duration,
     price |-> price, status |-> "pending", reschedule_count |-> 0,
     original_date |-> Null, cancellation_reason |-> "",
     google_calendar_event_id |-> Null, created_at |-> t]

(* checkBlackoutDates (its SELECT reads blackout_dates, which no route     *)
(* writes), then the handler: validation, future check against new Date(), *)
(* price; the conflict SELECT is awaited                                   *)
CreateBegin(w, u, lesson_date, new_date, duration) ==
    /\ FreeWorker(w)
    /\ Len(bookings) + InFlight({"create_conflict", "create_insert"})
          < MaxBookings
    /\ ops' = ops + 1
    /\ UNCHANGED <<now, bookings, payments, settings, aside>>
    /\ LET outcome == CreateOutcome(lesson_date, new_date, duration)
       IN  IF outcome # "next"
           THEN Reply(w, "create", 0, outcome)
           ELSE /\ reqs' = [reqs EXCEPT ![w] =
                       [Idle EXCEPT !.pc = "create_conflict", !.user = u,
                                    !.lesson_date = lesson_date,
                                    !.duration = duration,
                                    !.price = CreatePrice(duration)]]
                /\ UNCHANGED last

(* a conflict answer that leaves a row behind *)
CreateConflictRead_InsertsOnConflict(w) ==
    /\ reqs[w].pc = "create_conflict"
    /\ UNCHANGED <<now, payments, settings, ops, aside>>
    /\ IF CreateConflict(reqs[w].lesson_date)
       THEN /\ bookings' = Append(bookings,
                  [InsertedBooking(reqs[w].user, reqs[w].lesson_date,
                                   reqs[w].duration, reqs[w].price, now)
                      EXCEPT !.status = "cancelled"])
            /\ Reply(w, "create", 0, "conflict")
       ELSE /\ reqs' = [reqs EXCEPT ![w].pc = "create_insert"]
            /\ UNCHANGED <<bookings, last>>

(* SELECT id FROM bookings WHERE lesson_date = ? AND status NOT IN         *)
(* ('cancelled', 'completed'): 400 on a row, else the INSERT is awaited    *)
CreateConflictRead(w) ==
    /\ reqs[w].pc = "create_conflict"
    /\ UNCHANGED <<now, bookings, payments, settings, ops, aside>>
    /\ IF CreateConflict(reqs[w].lesson_date)
       THEN Reply(w, "create", 0, "conflict")
       ELSE /\ reqs' = [reqs EXCEPT ![w].pc = "create_insert"]
            /\ UNCHANGED last

(* INSERT INTO bookings (...) VALUES (?, ?, ?, ?, ?, 'pending'); then      *)
(* isCalendarSyncEnabled() is awaited                                      *)
CreateInsert(w) ==
    /\ reqs[w].pc = "create_insert"
    /\ bookings' = Append(bookings,
          InsertedBooking(reqs[w].user, reqs[w].lesson_date, reqs[w].duration,
                          reqs[w].price, now))
    /\ reqs' = [reqs EXCEPT ![w] =
          [@ EXCEPT !.pc = "create_sync", !.id = Len(bookings) + 1]]
    /\ UNCHANGED <<now, payments, settings, last, ops, aside>>

(* isCalendarSyncEnabled: SELECT calendar_sync_enabled FROM users WHERE    *)
(* role = 'admin'; when it is off the 201, else the SELECT of the user's   *)
(* name is awaited                                                         *)
CreateSyncEnabled(w) ==
    /\ reqs[w].pc = "create_sync"
    /\ IF google.calendar_sync_enabled
       THEN /\ reqs' = [reqs EXCEPT ![w].pc = "create_user"]
            /\ UNCHANGED last
       ELSE Reply(w, "create", reqs[w].id, "created")
    /\ UNCHANGED <<now, bookings, payments, settings, ops, aside>>

(* SELECT first_name, last_name, email FROM users WHERE id = ?, then the   *)
(* handler enters createBookingEvent                                       *)
CreateUserRead(w) ==
    /\ reqs[w].pc = "create_user"
    /\ reqs' = [reqs EXCEPT ![w] = CallingGoogle(@, "create", Null)]
    /\ UNCHANGED <<now, bookings, payments, settings, last, ops, aside>>

----------------------------------------------------------------------------
(* PUT /bookings/:id *)

(* checkReschedulePolicy: const sameMonth = originalDate.getMonth() ===    *)
(* newDate.getMonth() && originalDate.getFullYear() ===                    *)
(* newDate.getFullYear()                                                   *)
sameMonth(originalDate, newDate) ==
    /\ StrictEq(getMonth(originalDate), getMonth(newDate))
    /\ StrictEq(getFullYear(originalDate), getFullYear(newDate))

(* the monthly count never said to be used up *)
QuotaReached_Never(count, maxReschedules) == FALSE

(* checkReschedulePolicy: rescheduleCount.count >= maxReschedules *)
QuotaReached(count, maxReschedules) == count >= maxReschedules

(* the handler's month test never said to fail *)
differentMonth_Never(newLessonDate, currentLessonDate) == FALSE

(* the handler: newLessonDate.getMonth() !== currentLessonDate.getMonth()  *)
(* || newLessonDate.getFullYear() !== currentLessonDate.getFullYear()      *)
differentMonth(newLessonDate, currentLessonDate) ==
    \/ ~StrictEq(getMonth(newLessonDate), getMonth(currentLessonDate))
    \/ ~StrictEq(getFullYear(newLessonDate), getFullYear(currentLessonDate))

(* checkReschedulePolicy up to its settings read: SELECT * FROM bookings   *)
(* WHERE id = ? AND user_id = ?, then the same-month test on new_date of   *)
(* the body; originalDate is kept for the count                            *)
ReschedulePolicy(w, u, id, lesson_date, new_date) ==
    /\ FreeWorker(w)
    /\ ops' = ops + 1
    /\ UNCHANGED <<now, bookings, payments, settings, aside>>
    /\ IF ~OwnedBooking(id, u)
       THEN Reply(w, "reschedule", id, "not_found")
       ELSE IF ~sameMonth(bookings[id].lesson_date, new_date)
       THEN Reply(w, "reschedule", id, "policy_cross_month")
       ELSE /\ reqs' = [reqs EXCEPT ![w] =
                   [Idle EXCEPT !.pc = "resched_limit", !.user = u,
                                !.id = id, !.lesson_date = lesson_date,
                                !.new_date = new_date,
                                !.saved = bookings[id].lesson_date]]
            /\ UNCHANGED last

(* checkReschedulePolicy: SELECT value FROM settings WHERE key =           *)
(* 'max_reschedules_per_month'                                             *)
RescheduleLimit(w) ==
    /\ reqs[w].pc = "resched_limit"
    /\ reqs' = [reqs EXCEPT ![w] =
          [@ EXCEPT !.pc = "resched_count",
                    !.limit = settings.max_reschedules_per_month]]
    /\ UNCHANGED <<now, bookings, payments, settings, last, ops, aside>>

(* checkReschedulePolicy: the SELECT COUNT for the month of originalDate   *)
(* and the quota test; then checkBlackoutDates awaits its SELECT           *)
RescheduleCount(w) ==
    /\ reqs[w].pc = "resched_count"
    /\ UNCHANGED <<now, bookings, payments, settings, ops, aside>>
    /\ LET r == reqs[w]
           currentMonth == getMonth(r.saved) + 1
           currentYear == getFullYear(r.saved)
       IN  IF QuotaReached(RescheduleCountQuery(r.user, currentMonth,
                                                currentYear), r.limit)
           THEN Reply(w, "reschedule", r.id, "quota")
           ELSE /\ reqs' = [reqs EXCEPT ![w] =
                       [r EXCEPT !.pc = "resched_blackout", !.saved = NoDate,
                                 !.limit = 0]]
                /\ UNCHANGED last

(* checkBlackoutDates: SELECT * FROM blackout_dates WHERE is_active = 1    *)
(* AND ? BETWEEN start_date AND end_date; then the handler's test of       *)
(* lesson_date, and its SELECT of the booking is awaited                   *)
RescheduleBlackout(w) ==
    /\ reqs[w].pc = "resched_blackout"
    /\ UNCHANGED <<now, bookings, payments, settings, ops, aside>>
    /\ LET r == reqs[w]
       IN  IF checkBlackoutDates(r.lesson_date, r.new_date)
           THEN Reply(w, "reschedule", r.id, "blackout")
           ELSE IF r.lesson_date = NoDate
           THEN Reply(w, "reschedule", r.id, "validation")
           ELSE /\ reqs' = [reqs EXCEPT ![w] =
                       [r EXCEPT !.pc = "resched_handler", !.new_date = NoDate]]
                /\ UNCHANGED last

(* the handler: SELECT * FROM bookings WHERE id = ? AND user_id = ?, then  *)
(* its own same-month test on lesson_date of the body; the row read is     *)
(* kept (lesson_date, duration, google_calendar_event_id)                  *)
RescheduleHandler(w) ==
    /\ reqs[w].pc = "resched_handler"
    /\ UNCHANGED <<now, bookings, payments, settings, ops, aside>>
    /\ LET r == reqs[w]
       IN  IF ~OwnedBooking(r.id, r.user)
           THEN Reply(w, "reschedule", r.id, "not_found")
           ELSE IF differentMonth(r.lesson_date, bookings[r.id].lesson_date)
           THEN Reply(w, "reschedule", r.id, "cross_month")
           ELSE /\ reqs' = [reqs EXCEPT ![w] =
                       [r EXCEPT !.pc = "resched_conflict",
                                 !.saved = bookings[r.id].lesson_date,
                                 !.duration = bookings[r.id].duration,
                                 !.event =
                                   bookings[r.id].google_calendar_event_id]]
                /\ UNCHANGED last

(* the handler: SELECT id FROM bookings WHERE lesson_date = ? AND status   *)
(* NOT IN ('cancelled', 'completed') AND id != ?                           *)
RescheduleConflictRead(w) ==
    /\ reqs[w].pc = "resched_conflict"
    /\ UNCHANGED <<now, bookings, payments, settings, ops, aside>>
    /\ IF RescheduleConflict(reqs[w].lesson_date, reqs[w].id)
       THEN Reply(w, "reschedule", reqs[w].id, "conflict")
       ELSE /\ reqs' = [reqs EXCEPT ![w].pc = "resched_write"]
            /\ UNCHANGED last

(* the stored value replaced by the argument every time *)
COALESCE_Overwrites(a, b) == b

(* COALESCE(original_date, ?) *)
COALESCE(a, b) == IF a # Null THEN a ELSE b

(* UPDATE bookings SET lesson_date = ?, reschedule_count = ... + 1,        *)
(* original_date = COALESCE(original_date, ?) with the lesson date the     *)
(* handler has read; then isCalendarSyncEnabled() is awaited               *)
RescheduleWrite(w) ==
    /\ reqs[w].pc = "resched_write"
    /\ LET r == reqs[w]
       IN  /\ bookings' = [bookings EXCEPT ![r.id] =
                 [@ EXCEPT !.lesson_date = r.lesson_date,
                           !.reschedule_count = @ + 1,
                           !.original_date = COALESCE(@, r.saved)]]
           /\ reqs' = [reqs EXCEPT ![w].pc = "resched_sync"]
    /\ UNCHANGED <<now, payments, settings, last, ops, aside>>

(* isCalendarSyncEnabled: the 200 unless sync is on and the booking read   *)
(* by the handler had an event; else the SELECT of the user's name is      *)
(* awaited                                                                 *)
RescheduleSyncEnabled(w) ==
    /\ reqs[w].pc = "resched_sync"
    /\ IF google.calendar_sync_enabled /\ reqs[w].event # Null
       THEN /\ reqs' = [reqs EXCEPT ![w].pc = "resched_user"]
            /\ UNCHANGED last
       ELSE Reply(w, "reschedule", reqs[w].id, "rescheduled")
    /\ UNCHANGED <<now, bookings, payments, settings, ops, aside>>

(* SELECT first_name, last_name, email FROM users WHERE id = ?, then the   *)
(* handler enters updateBookingEvent                                       *)
RescheduleUserRead(w) ==
    /\ reqs[w].pc = "resched_user"
    /\ reqs' = [reqs EXCEPT ![w] = CallingGoogle(@, "update", reqs[w].event)]
    /\ UNCHANGED <<now, bookings, payments, settings, last, ops, aside>>

----------------------------------------------------------------------------
(* DELETE /bookings/:id *)

(* checkCancellationPolicy: req.policyChecks.cancellationAllowed, from the *)
(* lesson date of the booking it has read and the setting it reads now     *)
checkCancellationPolicy(lesson_date) ==
    CancellationAllowed(lesson_date, now, settings.cancellation_policy_hours)

(* rows of payments that the requests in flight may still insert *)
PaymentsInFlight ==
    InFlight({"cancel_policy", "cancel_price", "cancel_charge",
              "payment_existing", "stripe_create", "stripe_insert",
              "venmo_setting", "venmo_insert", "zelle_setting",
              "zelle_insert"})

(* the policy middleware up to its booking lookup *)
CancelPolicy(w, u, id) ==
    /\ FreeWorker(w)
    /\ Len(payments) + PaymentsInFlight < MaxPayments
    /\ ops' = ops + 1
    /\ UNCHANGED <<now, bookings, payments, settings, aside>>
    /\ IF ~OwnedBooking(id, u)
       THEN Reply(w, "cancel", id, "not_found")
       ELSE /\ reqs' = [reqs EXCEPT ![w] =
                   [Idle EXCEPT !.pc = "cancel_policy", !.user = u, !.id = id,
                                !.saved = bookings[id].lesson_date]]
            /\ UNCHANGED last

(* the policy middleware from its settings lookup: the window test against *)
(* new Date(); then enforceCancellationCharging awaits its SELECT of the   *)
(* booking, or the handler awaits its own                                  *)
CancelWindow(w) ==
    /\ reqs[w].pc = "cancel_policy"
    /\ reqs' = [reqs EXCEPT ![w] =
          [@ EXCEPT !.pc = IF checkCancellationPolicy(reqs[w].saved)
                           THEN "cancel_free" ELSE "cancel_price"]]
    /\ UNCHANGED <<now, bookings, payments, settings, last, ops, aside>>

(* enforceCancellationCharging: SELECT * FROM bookings WHERE id = ? *)
CancelPrice(w) ==
    /\ reqs[w].pc = "cancel_price"
    /\ reqs' = [reqs EXCEPT ![w] =
          [@ EXCEPT !.pc = "cancel_charge",
                    !.price = bookings[reqs[w].id].price]]
    /\ UNCHANGED <<now, bookings, payments, settings, last, ops, aside>>

(* enforceCancellationCharging: INSERT INTO payments (booking_id, amount,  *)
(* payment_method, status, payment_reference) with the price it has read   *)
CancelCharge(w) ==
    /\ reqs[w].pc = "cancel_charge"
    /\ payments' = Append(payments,
          [booking_id |-> reqs[w].id, amount |-> reqs[w].price,
           payment_method |-> "automatic_charge", status |-> "pending",
           payment_reference |-> "late_cancellation_fee", intent |-> FALSE])
    /\ reqs' = [reqs EXCEPT ![w].pc = "cancel_charged"]
    /\ UNCHANGED <<now, bookings, settings, last, ops, aside>>

(* the charge answered without the booking being cancelled *)
CancelCharged_KeepsBooking(w) ==
    /\ reqs[w].pc = "cancel_charged"
    /\ Reply(w, "cancel", reqs[w].id, "charged")
    /\ UNCHANGED <<now, bookings, payments, settings, ops, aside>>

(* enforceCancellationCharging: UPDATE bookings SET status = 'cancelled',  *)
(* cancellation_reason = ..., then the response                            *)
CancelCharged(w) ==
    /\ reqs[w].pc = "cancel_charged"
    /\ LET id == reqs[w].id
       IN  /\ bookings' = [bookings EXCEPT ![id] =
                 [@ EXCEPT !.status = "cancelled",
                           !.cancellation_reason =
                               "Late cancellation - automatic charge applied"]]
           /\ Reply(w, "cancel", id, "charged")
    /\ UNCHANGED <<now, payments, settings, ops, aside>>

(* the handler: SELECT * FROM bookings WHERE id = ? AND user_id = ?; the   *)
(* row exists, the policy middleware has found it and no row is deleted    *)
CancelFree(w) ==
    /\ reqs[w].pc = "cancel_free"
    /\ reqs' = [reqs EXCEPT ![w] =
          [@ EXCEPT !.pc = "cancel_write",
                    !.event = bookings[reqs[w].id].google_calendar_event_id]]
    /\ UNCHANGED <<now, bookings, payments, settings, last, ops, aside>>

(* the handler: UPDATE bookings SET status = 'cancelled'; then             *)
(* isCalendarSyncEnabled() is awaited                                      *)
CancelWrite(w) ==
    /\ reqs[w].pc = "cancel_write"
    /\ bookings' = [bookings EXCEPT ![reqs[w].id] =
          [@ EXCEPT !.status = "cancelled"]]
    /\ reqs' = [reqs EXCEPT ![w].pc = "cancel_sync"]
    /\ UNCHANGED <<now, payments, settings, last, ops, aside>>

(* isCalendarSyncEnabled: the 200 unless sync is on and the booking read   *)
(* by the handler had an event; else the handler enters deleteBookingEvent *)
CancelSyncEnabled(w) ==
    /\ reqs[w].pc = "cancel_sync"
    /\ IF google.calendar_sync_enabled /\ reqs[w].event # Null
       THEN /\ reqs' = [reqs EXCEPT ![w] =
                   CallingGoogle(@, "delete", reqs[w].event)]
            /\ UNCHANGED last
       ELSE Reply(w, "cancel", reqs[w].id, "cancelled")
    /\ UNCHANGED <<now, bookings, payments, settings, ops, aside>>

----------------------------------------------------------------------------
(* Admin and payment signals *)

(* values of the body field status: the five listed ones and one that is  *)
(* not listed                                                              *)
BodyStatuses == validStatuses \cup {"no_show"}

(* PUT /admin/bookings/:id/status: the UPDATE of an id that no row has     *)
(* changes nothing and is answered 200 all the same                        *)
AdminUpdateStatus(id, status) ==
    /\ ops' = ops + 1
    /\ IF status \notin validStatuses
       THEN /\ last' = Response("admin_status", id, "invalid")
            /\ UNCHANGED bookings
       ELSE /\ bookings' = IF id \in BookingIds
                           THEN [bookings EXCEPT ![id] =
                                    [@ EXCEPT !.status = status]]
                           ELSE bookings
            /\ last' = Response("admin_status", id, "updated")
    /\ UNCHANGED <<now, payments, settings, reqs, aside>>

(* an absent or empty body field value *)
NoValue == 0

(* PUT /admin/settings/:key: UPDATE settings SET value = ? WHERE key = ?.  *)
(* The column holds text; a value stands here for the number that the      *)
(* readers' parseInt/parseFloat make of it.                                *)
AdminUpdateSetting(key, value) ==
    /\ ops' = ops + 1
    /\ IF value = NoValue
       THEN /\ last' = Response("admin_setting", 0, "validation")
            /\ UNCHANGED settings
       ELSE /\ settings' = IF key \in DOMAIN settings
                           THEN [settings EXCEPT ![key] = value]
                           ELSE settings
            /\ last' = Response("admin_setting", 0, "updated")
    /\ UNCHANGED <<now, bookings, payments, reqs, aside>>

(* SELECT id FROM payments WHERE booking_id = ? AND status IN (...) *)
existingPayment(id) ==
    \E p \in 1..Len(payments) :
        /\ payments[p].booking_id = id
        /\ payments[p].status \in {"completed", "pending"}

(* POST /payments/stripe/create-payment-intent: the test of booking_id     *)
(* (Null is a body without it), then SELECT b.*, ... FROM bookings b JOIN  *)
(* users u ... WHERE b.id = ? AND b.user_id = ?                            *)
CreatePaymentIntent(w, u, id) ==
    /\ FreeWorker(w)
    /\ Len(payments) + PaymentsInFlight < MaxPayments
    /\ ops' = ops + 1
    /\ UNCHANGED <<now, bookings, payments, settings, aside>>
    /\ IF id = Null
       THEN Reply(w, "payment_intent", id, "validation")
       ELSE IF ~OwnedBooking(id, u)
       THEN Reply(w, "payment_intent", id, "not_found")
       ELSE /\ reqs' = [reqs EXCEPT ![w] =
                   [Idle EXCEPT !.pc = "payment_existing", !.user = u,
                                !.id = id, !.price = bookings[id].price]]
            /\ UNCHANGED last

(* the check for an existing payment: 400 on a row, else                   *)
(* stripeService.createPaymentIntent is entered and awaits                 *)
(* stripe.paymentIntents.create                                            *)
PaymentExisting(w) ==
    /\ reqs[w].pc = "payment_existing"
    /\ UNCHANGED <<now, bookings, payments, settings, ops, aside>>
    /\ IF existingPayment(reqs[w].id)
       THEN Reply(w, "payment_intent", reqs[w].id, "exists")
       ELSE /\ reqs' = [reqs EXCEPT ![w].pc = "stripe_create"]
            /\ UNCHANGED last

(* StripeService.createPaymentIntent: stripe.paymentIntents.create returns *)
(* and the INSERT is awaited, or it throws (or no secret key is            *)
(* configured) and the request is answered 500                             *)
createPaymentIntent(w, stripeOk) ==
    /\ reqs[w].pc = "stripe_create"
    /\ UNCHANGED <<now, bookings, payments, settings, ops, aside>>
    /\ IF stripeOk
       THEN /\ reqs' = [reqs EXCEPT ![w].pc = "stripe_insert"]
            /\ UNCHANGED last
       ELSE Reply(w, "payment_intent", reqs[w].id, "failed")

(* StripeService.createPaymentIntent: INSERT INTO payments (booking_id,    *)
(* stripe_payment_intent_id, amount, status, created_at), the amount in    *)
(* cents; then the response                                                *)
PaymentIntentInsert(w) ==
    /\ reqs[w].pc = "stripe_insert"
    /\ payments' = Append(payments,
          [booking_id |-> reqs[w].id, amount |-> reqs[w].price * 100,
           payment_method |-> "stripe", status |-> "pending",
           payment_reference |-> "", intent |-> TRUE])
    /\ Reply(w, "payment_intent", reqs[w].id, "created")
    /\ UNCHANGED <<now, bookings, settings, ops, aside>>

(* the payment intent of a webhook event: p > 0 is the intent stored in    *)
(* payments row p, whose metadata.bookingId is that row's booking; p = 0   *)
(* is an intent of the Stripe account that no row stores                   *)
NoRow == 0

WebhookIntent(p, bookingId) ==
    \/ p = NoRow
    \/ /\ p \in 1..Len(payments)
       /\ payments[p].intent
       /\ payments[p].booking_id = bookingId

(* UPDATE payments SET status = ? WHERE stripe_payment_intent_id = ? *)
IntentStatus(p, status) ==
    IF p = NoRow THEN payments
    ELSE [payments EXCEPT ![p] = [@ EXCEPT !.status = status]]

(* UPDATE bookings SET status = ? WHERE id = ? *)
BookingStatus(id, status) ==
    IF id \in BookingIds
    THEN [bookings EXCEPT ![id] = [@ EXCEPT !.status = status]]
    ELSE bookings

(* StripeService.handlePaymentSuccess: UPDATE payments SET status =        *)
(* 'completed'                                                             *)
handlePaymentSuccess(w, p, bookingId) ==
    /\ FreeWorker(w)
    /\ WebhookIntent(p, bookingId)
    /\ ops' = ops + 1
    /\ payments' = IntentStatus(p, "completed")
    /\ reqs' = [reqs EXCEPT ![w] =
          [Idle EXCEPT !.pc = "payment_succeeded", !.id = bookingId]]
    /\ UNCHANGED <<now, bookings, settings, last, aside>>

(* StripeService.handlePaymentSuccess: UPDATE bookings SET status =        *)
(* 'confirmed' WHERE id = metadata.bookingId                               *)
handlePaymentSuccessBooking(w) ==
    /\ reqs[w].pc = "payment_succeeded"
    /\ bookings' = BookingStatus(reqs[w].id, "confirmed")
    /\ reqs' = [reqs EXCEPT ![w].pc = "payment_email"]
    /\ UNCHANGED <<now, payments, settings, last, ops, aside>>

(* StripeService.handlePaymentSuccess: SELECT b.*, ... FROM bookings b     *)
(* JOIN users u ... WHERE b.id = ?; with a row sendEmail is awaited,       *)
(* without one the webhook is answered                                     *)
handlePaymentSuccessEmail(w) ==
    /\ reqs[w].pc = "payment_email"
    /\ UNCHANGED <<now, bookings, payments, settings, ops, aside>>
    /\ IF reqs[w].id \in BookingIds
       THEN /\ reqs' = [reqs EXCEPT ![w].pc = "payment_sent"]
            /\ UNCHANGED last
       ELSE Reply(w, "payment_success", reqs[w].id, "updated")

(* StripeService.handlePaymentSuccess: sendEmail returns or throws into    *)
(* the inner catch; the webhook is answered                                *)
handlePaymentSuccessSent(w) ==
    /\ reqs[w].pc = "payment_sent"
    /\ Reply(w, "payment_success", reqs[w].id, "updated")
    /\ UNCHANGED <<now, bookings, payments, settings, ops, aside>>

(* StripeService.handlePaymentFailure: UPDATE payments SET status =        *)
(* 'failed'                                                                *)
handlePaymentFailure(w, p, bookingId) ==
    /\ FreeWorker(w)
    /\ WebhookIntent(p, bookingId)
    /\ ops' = ops + 1
    /\ payments' = IntentStatus(p, "failed")
    /\ reqs' = [reqs EXCEPT ![w] =
          [Idle EXCEPT !.pc = "payment_failed", !.id = bookingId]]
    /\ UNCHANGED <<now, bookings, settings, last, aside>>

(* StripeService.handlePaymentFailure: UPDATE bookings SET status =        *)
(* 'payment_failed' WHERE id = metadata.bookingId                          *)
handlePaymentFailureBooking(w) ==
    /\ reqs[w].pc = "payment_failed"
    /\ bookings' = BookingStatus(reqs[w].id, "payment_failed")
    /\ Reply(w, "payment_failure", reqs[w].id, "updated")
    /\ UNCHANGED <<now, payments, settings, ops, aside>>

(* StripeService.refundPayment(paymentIntentId, amount), a public method   *)
(* of the exported stripeService that no route, webhook or scheduled job   *)
(* calls: the awaited stripe.refunds.create returns and the UPDATE is      *)
(* awaited, or it throws and success: false is returned                    *)
refundPayment(w, p, stripeOk) ==
    /\ FreeWorker(w)
    /\ p = NoRow \/ (p \in 1..Len(payments) /\ payments[p].intent)
    /\ ops' = ops + 1
    /\ UNCHANGED <<now, bookings, payments, settings, aside>>
    /\ IF stripeOk
       THEN /\ reqs' = [reqs EXCEPT ![w] =
                   [Idle EXCEPT !.pc = "refund_store", !.id = p]]
            /\ UNCHANGED last
       ELSE Reply(w, "refund", p, "failed")

(* StripeService.refundPayment: UPDATE payments SET status = 'refunded',   *)
(* refund_id = ? WHERE stripe_payment_intent_id = ?, and success: true is  *)
(* returned                                                                *)
refundPaymentStore(w) ==
    /\ reqs[w].pc = "refund_store"
    /\ payments' = IntentStatus(reqs[w].id, "refunded")
    /\ Reply(w, "refund", reqs[w].id, "refunded")
    /\ UNCHANGED <<now, bookings, settings, ops, aside>>

----------------------------------------------------------------------------
(* Specifications *)

CreateRequest ==
    \E w \in Workers, u \in Users, ld \in BodyDates, nd \in NewDates,
       d \in BodyDurations : CreateBegin(w, u, ld, nd, d)

RescheduleRequest ==
    \E w \in Workers, u \in Users, id \in 1..MaxBookings, ld \in BodyDates,
       nd \in NewDates : ReschedulePolicy(w, u, id, ld, nd)

CancelRequest ==
    \E w \in Workers, u \in Users, id \in 1..MaxBookings : CancelPolicy(w, u, id)

(* the later steps of a create request up to its answer, or up to its      *)
(* calendar call when sync is enabled                                      *)
CreateStep(w) ==
    \/ CreateConflictRead(w)
    \/ CreateInsert(w)
    \/ CreateSyncEnabled(w)

(* the later steps of a reschedule request *)
RescheduleStep(w) ==
    \/ RescheduleLimit(w)
    \/ RescheduleCount(w)
    \/ RescheduleBlackout(w)
    \/ RescheduleHandler(w)
    \/ RescheduleConflictRead(w)
    \/ RescheduleWrite(w)
    \/ RescheduleSyncEnabled(w)

(* the later steps of a cancel request *)
CancelStep(w) ==
    \/ CancelWindow(w)
    \/ CancelPrice(w)
    \/ CancelCharge(w)
    \/ CancelCharged(w)
    \/ CancelFree(w)
    \/ CancelWrite(w)
    \/ CancelSyncEnabled(w)

(* the later steps of the requests in flight *)
ClientStep ==
    \E w \in Workers : CreateStep(w) \/ RescheduleStep(w) \/ CancelStep(w)

AdminRequest ==
    \E id \in 1..MaxBookings, s \in BodyStatuses : AdminUpdateStatus(id, s)

PaymentIntentRequest ==
    \E w \in Workers, u \in Users, id \in (1..MaxBookings) \cup {Null} :
        CreatePaymentIntent(w, u, id)

(* webhook events payment_intent.succeeded / payment_intent.payment_failed *)
PaymentSucceeded ==
    \E w \in Workers, p \in 0..MaxPayments, id \in 1..MaxBookings :
        handlePaymentSuccess(w, p, id)

PaymentFailed ==
    \E w \in Workers, p \in 0..MaxPayments, id \in 1..MaxBookings :
        handlePaymentFailure(w, p, id)

(* the later steps of the payment requests in flight *)
PaymentStep ==
    \E w \in Workers :
        \/ PaymentExisting(w)
        \/ \E stripeOk \in BOOLEAN : createPaymentIntent(w, stripeOk)
        \/ PaymentIntentInsert(w)
        \/ handlePaymentSuccessBooking(w)
        \/ handlePaymentSuccessEmail(w)
        \/ handlePaymentSuccessSent(w)
        \/ handlePaymentFailureBooking(w)

(* the settings that the booking handlers read, and values the admin may  *)
(* send for them                                                           *)
SettingKeys == {"cancellation_policy_hours", "no_such_key"}
SettingValues == {NoValue, 48}

SettingRequest ==
    \E key \in SettingKeys, v \in SettingValues : AdminUpdateSetting(key, v)

(* requests enter at their first middleware *)
Next ==
    \/ Tick
    \/ ops < MaxOps /\ CreateRequest
    \/ ops < MaxOps /\ RescheduleRequest
    \/ ops < MaxOps /\ CancelRequest
    \/ ops < MaxOps /\ AdminRequest
    \/ ops < MaxOps /\ PaymentIntentRequest
    \/ ops < MaxOps /\ PaymentSucceeded
    \/ ops < MaxOps /\ PaymentFailed
    \/ ops < MaxOps /\ SettingRequest
    \/ ClientStep
    \/ PaymentStep

Spec == Init /\ [][Next]_vars

(* A store that holds two pending 60-minute bookings.  Booking 1 is the    *)
(* sample lesson of the demo client, seeded for 2025-11-10 14:00 when the  *)
(* server was first started on 2025-11-03, which the admin has set back to *)
(* pending.  Booking 2 was made by an earlier POST /bookings of either     *)
(* user, an hour later or in December; the lesson an hour later may have   *)
(* been moved there from Nov 30 by one earlier PUT /bookings/:id.          *)
NewBooking(u, lesson_date, duration) ==
    InsertedBooking(u, lesson_date, duration, CreatePrice(duration), Nov03_09)

MovedBooking(u, from, to, duration) ==
    [NewBooking(u, to, duration) EXCEPT !.reschedule_count = 1,
                                        !.original_date = from]

InitBooked ==
    /\ AsideInit
    /\ now = ClockStart
    /\ \E u \in Users :
          \E b \in {NewBooking(u, Nov10_15, 60), NewBooking(u, Dec01_10, 60),
                    MovedBooking(u, Nov30_10, Nov10_15, 60)} :
              bookings = <<NewBooking(2, Nov10_14, 60), b>>
    /\ payments = << >>
    /\ settings = DefaultSettings
    /\ reqs = [w \in Workers |-> Idle]
    /\ last = NoResponse
    /\ ops = 0

(* the reschedule path on its own *)
NextReschedule ==
    \/ ops < MaxReschedOps /\ RescheduleRequest
    \/ \E w \in Workers : RescheduleStep(w)

SpecReschedule == InitBooked /\ [][NextReschedule]_vars

(* the cancellation path, with the admin's status updates *)
NextCancel ==
    \/ Tick
    \/ ops < MaxCancelOps /\ CancelRequest
    \/ ops < MaxCancelOps /\ AdminRequest
    \/ ops < MaxCancelOps /\ SettingRequest
    \/ \E w \in Workers : CancelStep(w)

SpecCancel == InitBooked /\ [][NextCancel]_vars

(* A store that holds the seeded 14:00 lesson of the demo client, set     *)
(* back to pending by the admin                                            *)
InitOneBooked ==
    /\ AsideInit
    /\ now = ClockStart
    /\ bookings = <<NewBooking(2, Nov10_14, 60)>>
    /\ payments = << >>
    /\ settings = DefaultSettings
    /\ reqs = [w \in Workers |-> Idle]
    /\ last = NoResponse
    /\ ops = 0

(* creations and reschedules that meet a held slot *)
NextConflict ==
    \/ ops < MaxConflictOps /\ CreateRequest
    \/ ops < MaxConflictOps /\ RescheduleRequest
    \/ \E w \in Workers : CreateStep(w)
    \/ \E w \in Workers : RescheduleStep(w)

SpecConflict == InitOneBooked /\ [][NextConflict]_vars

----------------------------------------------------------------------------
(* Make-up lessons: POST /makeup, PUT /makeup/:id/schedule,                *)
(* PUT /makeup/:id/complete, POST /makeup/saturday-sessions/:id/join       *)

MakeupIds == 1..Len(makeups)

(* SELECT COUNT FROM makeup_lessons WHERE user_id = ? AND status =         *)
(* 'pending'                                                               *)
PendingCount(u) ==
    Cardinality({i \in MakeupIds :
        makeups[i].user_id = u /\ makeups[i].status = "pending"})

(* the limit test with the limit itself allowed *)
MakeupLimitReached_OffByOne(count, maxPending) == count > maxPending

(* pendingCount.count >= maxPending *)
MakeupLimitReached(count, maxPending) == count >= maxPending

(* SELECT * FROM bookings WHERE id = ? AND user_id = ? AND status IN       *)
(* ('confirmed', 'cancelled')                                              *)
EligibleOriginal(id, u) ==
    OwnedBooking(id, u) /\ bookings[id].status \in {"confirmed", "cancelled"}

(* rows of makeup_lessons that the requests in flight may still insert *)
MakeupsInFlight ==
    InFlight({"makeup_count", "makeup_handler", "makeup_limit",
              "makeup_pending", "makeup_insert"})

(* checkMakeupPolicy, the policy middleware of POST /makeup: SELECT value  *)
(* FROM settings WHERE key = 'max_pending_makeups'.  reason tells whether  *)
(* the body carries a reason, which the handler binds unvalidated into its *)
(* INSERT                                                                  *)
MakeupPolicy(w, u, id, reason) ==
    /\ FreeWorker(w)
    /\ Len(makeups) + MakeupsInFlight < MaxMakeups
    /\ ops' = ops + 1
    /\ reqs' = [reqs EXCEPT ![w] =
          [Idle EXCEPT !.pc = "makeup_count", !.user = u, !.id = id,
                       !.limit = settings.max_pending_makeups,
                       !.reason = reason]]
    /\ UNCHANGED <<now, bookings, payments, settings, last>>
    /\ UNCHANGED aside

(* checkMakeupPolicy: the SELECT COUNT of the pending make-ups and the     *)
(* limit test; then the handler awaits its SELECT of the original booking  *)
MakeupPolicyCount(w) ==
    /\ reqs[w].pc = "makeup_count"
    /\ UNCHANGED <<now, bookings, payments, settings, ops>>
    /\ UNCHANGED aside
    /\ IF MakeupLimitReached(PendingCount(reqs[w].user), reqs[w].limit)
       THEN Reply(w, "makeup", reqs[w].id, "limit")
       ELSE /\ reqs' = [reqs EXCEPT ![w] =
                   [@ EXCEPT !.pc = "makeup_handler", !.limit = 0]]
            /\ UNCHANGED last

(* the handler: the SELECT of the original booking *)
MakeupHandler(w) ==
    /\ reqs[w].pc = "makeup_handler"
    /\ UNCHANGED <<now, bookings, payments, settings, ops>>
    /\ UNCHANGED aside
    /\ IF ~EligibleOriginal(reqs[w].id, reqs[w].user)
       THEN Reply(w, "makeup", reqs[w].id, "not_eligible")
       ELSE /\ reqs' = [reqs EXCEPT ![w].pc = "makeup_limit"]
            /\ UNCHANGED last

(* the handler: SELECT value FROM settings WHERE key =                     *)
(* 'max_pending_makeups'                                                   *)
MakeupHandlerLimit(w) ==
    /\ reqs[w].pc = "makeup_limit"
    /\ reqs' = [reqs EXCEPT ![w] =
          [@ EXCEPT !.pc = "makeup_pending",
                    !.limit = settings.max_pending_makeups]]
    /\ UNCHANGED <<now, bookings, payments, settings, last, ops>>
    /\ UNCHANGED aside

(* the handler: its own SELECT COUNT of the pending make-ups and the limit *)
(* test; then the INSERT is awaited                                        *)
MakeupHandlerCount(w) ==
    /\ reqs[w].pc = "makeup_pending"
    /\ UNCHANGED <<now, bookings, payments, settings, ops>>
    /\ UNCHANGED aside
    /\ IF MakeupLimitReached(PendingCount(reqs[w].user), reqs[w].limit)
       THEN Reply(w, "makeup", reqs[w].id, "limit")
       ELSE /\ reqs' = [reqs EXCEPT ![w] =
                   [@ EXCEPT !.pc = "makeup_insert", !.limit = 0]]
            /\ UNCHANGED last

(* INSERT INTO makeup_lessons (user_id, original_booking_id, reason): the  *)
(* column reason is NOT NULL, so without a reason in the body the INSERT   *)
(* throws, no row is written and the catch block answers 500               *)
MakeupInsert(w) ==
    /\ reqs[w].pc = "makeup_insert"
    /\ IF reqs[w].reason
       THEN /\ makeups' = Append(makeups,
                  [user_id |-> reqs[w].user,
                   original_booking_id |-> reqs[w].id, status |-> "pending"])
            /\ Reply(w, "makeup", Len(makeups) + 1, "created")
       ELSE /\ makeups' = makeups
            /\ Reply(w, "makeup", reqs[w].id, "failed")
    /\ UNCHANGED <<now, bookings, payments, settings, ops>>
    /\ UNCHANGED <<sessions, recurring, cycles, google, events, answer,
                   sync_log, notices,
                   phones, twilio>>

(* PUT /makeup/:id/schedule (admin): UPDATE makeup_lessons SET ... status  *)
(* = 'scheduled' WHERE id = ?, which changes no row when there is none of  *)
(* that id, and the answer 200 in either case                              *)
ScheduleMakeup(id) ==
    /\ ops' = ops + 1
    /\ makeups' = [i \in 1..Len(makeups) |->
          IF i = id THEN [makeups[i] EXCEPT !.status = "scheduled"]
          ELSE makeups[i]]
    /\ last' = Response("makeup_schedule", id, "updated")
    /\ UNCHANGED <<now, bookings, payments, settings, reqs>>
    /\ UNCHANGED <<sessions, recurring, cycles, google, events, answer,
                   sync_log, notices,
                   phones, twilio>>

(* PUT /makeup/:id/complete (admin): UPDATE makeup_lessons SET status =    *)
(* 'completed' WHERE id = ?, and the answer 200 whether or not a row had   *)
(* that id                                                                 *)
CompleteMakeup(id) ==
    /\ ops' = ops + 1
    /\ makeups' = [i \in 1..Len(makeups) |->
          IF i = id THEN [makeups[i] EXCEPT !.status = "completed"]
          ELSE makeups[i]]
    /\ last' = Response("makeup_complete", id, "updated")
    /\ UNCHANGED <<now, bookings, payments, settings, reqs>>
    /\ UNCHANGED <<sessions, recurring, cycles, google, events, answer,
                   sync_log, notices,
                   phones, twilio>>

(* POST /makeup/saturday-sessions by the admin: INSERT INTO                *)
(* saturday_sessions; current_students defaults to 0 and status to         *)
(* 'available'.  complete tells whether the body carries session_date,     *)
(* start_time and end_time: the three columns are NOT NULL, so without one *)
(* of them the INSERT throws, no row is written and the catch block        *)
(* answers 500.  The table holds at most MaxSessions rows here.            *)
CreateSaturdaySession(complete, max_students) ==
    /\ complete => Len(sessions) < MaxSessions
    /\ ops' = ops + 1
    /\ IF complete
       THEN /\ sessions' = Append(sessions,
                  [max_students |-> max_students, current_students |-> 0,
                   status |-> "available"])
            /\ last' = Response("session", Len(sessions) + 1, "created")
       ELSE /\ sessions' = sessions
            /\ last' = Response("session", 0, "failed")
    /\ UNCHANGED <<now, bookings, payments, settings, reqs>>
    /\ UNCHANGED <<makeups, recurring, cycles, google, events, answer,
                   sync_log, notices,
                   phones, twilio>>

(* POST /makeup/saturday-sessions/:id/join: SELECT * FROM                  *)
(* saturday_sessions WHERE id = ? AND status = 'available' AND             *)
(* current_students < max_students                                         *)
JoinCheck(w, u, sid, mid) ==
    /\ FreeWorker(w)
    /\ ops' = ops + 1
    /\ UNCHANGED <<now, bookings, payments, settings>>
    /\ UNCHANGED aside
    /\ IF ~(/\ sid \in 1..Len(sessions)
            /\ sessions[sid].status = "available"
            /\ sessions[sid].current_students < sessions[sid].max_students)
       THEN Reply(w, "join", mid, "session_full")
       ELSE /\ reqs' = [reqs EXCEPT ![w] =
                   [Idle EXCEPT !.pc = "join_makeup", !.user = u, !.id = mid,
                                !.session = sid]]
            /\ UNCHANGED last

(* SELECT * FROM makeup_lessons WHERE id = ? AND user_id = ? AND status =  *)
(* 'pending'                                                               *)
JoinMakeup(w) ==
    /\ reqs[w].pc = "join_makeup"
    /\ UNCHANGED <<now, bookings, payments, settings, ops>>
    /\ UNCHANGED aside
    /\ LET mid == reqs[w].id
       IN  IF ~(/\ mid \in MakeupIds
                /\ makeups[mid].user_id = reqs[w].user
                /\ makeups[mid].status = "pending")
           THEN Reply(w, "join", mid, "not_found")
           ELSE /\ reqs' = [reqs EXCEPT ![w].pc = "join_write"]
                /\ UNCHANGED last

(* UPDATE makeup_lessons SET makeup_date = ?, status = 'scheduled' *)
JoinWrite(w) ==
    /\ reqs[w].pc = "join_write"
    /\ makeups' = [makeups EXCEPT ![reqs[w].id] =
                      [@ EXCEPT !.status = "scheduled"]]
    /\ reqs' = [reqs EXCEPT ![w].pc = "join_count"]
    /\ UNCHANGED <<now, bookings, payments, settings, last, ops>>
    /\ UNCHANGED <<sessions, recurring, cycles, google, events, answer,
                   sync_log, notices,
                   phones, twilio>>

(* UPDATE saturday_sessions SET current_students = current_students + 1 *)
JoinCount(w) ==
    /\ reqs[w].pc = "join_count"
    /\ sessions' = [sessions EXCEPT ![reqs[w].session] =
                       [@ EXCEPT !.current_students = @ + 1]]
    /\ reqs' = [reqs EXCEPT ![w].pc = "join_full"]
    /\ UNCHANGED <<now, bookings, payments, settings, last, ops>>
    /\ UNCHANGED <<makeups, recurring, cycles, google, events, answer,
                   sync_log, notices,
                   phones, twilio>>

(* SELECT * FROM saturday_sessions WHERE id = ?: when current_students >=  *)
(* max_students the UPDATE to full is awaited, else the answer is sent     *)
JoinFull(w) ==
    /\ reqs[w].pc = "join_full"
    /\ UNCHANGED <<now, bookings, payments, settings, ops>>
    /\ UNCHANGED aside
    /\ LET sid == reqs[w].session
       IN  IF sessions[sid].current_students >= sessions[sid].max_students
           THEN /\ reqs' = [reqs EXCEPT ![w].pc = "join_mark"]
                /\ UNCHANGED last
           ELSE Reply(w, "join", reqs[w].id, "joined")

(* UPDATE saturday_sessions SET status = 'full' WHERE id = ?, and the      *)
(* answer                                                                  *)
JoinMarkFull(w) ==
    /\ reqs[w].pc = "join_mark"
    /\ sessions' = [sessions EXCEPT ![reqs[w].session] =
                       [@ EXCEPT !.status = "full"]]
    /\ Reply(w, "join", reqs[w].id, "joined")
    /\ UNCHANGED <<now, bookings, payments, settings, ops>>
    /\ UNCHANGED <<makeups, recurring, cycles, google, events, answer,
                   sync_log, notices,
                   phones, twilio>>

MakeupRequest ==
    \E w \in Workers, u \in Users, id \in 1..MaxBookings, reason \in BOOLEAN :
        MakeupPolicy(w, u, id, reason)

ScheduleRequest == \E id \in 1..MaxMakeups : ScheduleMakeup(id)

CompleteRequest == \E id \in 1..MaxMakeups : CompleteMakeup(id)

JoinRequest ==
    \E w \in Workers, u \in Users, sid \in 1..MaxSessions,
       mid \in 1..MaxMakeups : JoinCheck(w, u, sid, mid)

(* max_students of the request body: absent (the default 4), or 1 *)
SessionRequest ==
    \E complete \in BOOLEAN, m \in {4, 1} : CreateSaturdaySession(complete, m)

(* a row of makeup_lessons as POST / inserts it *)
PendingMakeup(u, id) ==
    [user_id |-> u, original_booking_id |-> id, status |-> "pending"]

(* A store in which the demo client has the seeded confirmed lesson and a  *)
(* pending booking and has already asked for one or two make-ups of the    *)
(* confirmed one, and the admin has opened a Saturday session of four      *)
(* places, none or three taken                                             *)
InitMakeup ==
    /\ now = ClockStart
    /\ bookings = <<[NewBooking(2, Nov10_14, 60) EXCEPT !.status = "confirmed"],
                    NewBooking(2, Nov10_15, 60)>>
    /\ payments = << >>
    /\ settings = DefaultSettings
    /\ reqs = [w \in Workers |-> Idle]
    /\ last = NoResponse
    /\ ops = 0
    /\ makeups \in {<<PendingMakeup(2, 1)>>,
                    <<PendingMakeup(2, 1), PendingMakeup(2, 1)>>}
    /\ \E taken \in {0, 3} :
          sessions = <<[max_students |-> 4, current_students |-> taken,
                        status |-> "available"]>>
    /\ recurring = << >>
    /\ cycles = << >>
    /\ google = NoGoogle
    /\ events = {}
    /\ answer = NoAnswer
    /\ sync_log = << >>
    /\ notices = {}
    /\ phones = SeededPhones
    /\ twilio = TRUE

NextMakeup ==
    \/ ops < MaxMakeupOps /\ MakeupRequest
    \/ ops < MaxMakeupOps /\ ScheduleRequest
    \/ ops < MaxMakeupOps /\ CompleteRequest
    \/ ops < MaxMakeupOps /\ JoinRequest
    \/ ops < MaxMakeupOps /\ SessionRequest
    \/ \E w \in Workers : MakeupPolicyCount(w)
    \/ \E w \in Workers : MakeupHandler(w)
    \/ \E w \in Workers : MakeupHandlerLimit(w)
    \/ \E w \in Workers : MakeupHandlerCount(w)
    \/ \E w \in Workers : MakeupInsert(w)
    \/ \E w \in Workers : JoinMakeup(w)
    \/ \E w \in Workers : JoinWrite(w)
    \/ \E w \in Workers : JoinCount(w)
    \/ \E w \in Workers : JoinFull(w)
    \/ \E w \in Workers : JoinMarkFull(w)

SpecMakeup == InitMakeup /\ [][NextMakeup]_vars

----------------------------------------------------------------------------
(* Recurring bookings and their billing cycles: POST /recurring.  A date   *)
(* string 'YYYY-MM-DD' is the number YYYYMMDD; a Date at midnight is the   *)
(* same number, so that <= on Dates is <= on the numbers.                  *)

DateGetFullYear(d) == d \div 10000

(* Date.getMonth() of a date: 0-based *)
DateGetMonth(d) == ((d \div 100) % 100) - 1

(* new Date(year, month, day): a month past December rolls into the next   *)
(* year                                                                    *)
NewDate(year, month, day) ==
    (year + month \div 12) * 10000 + ((month % 12) + 1) * 100 + day

(* durations asked for a recurring booking, start dates around the end of  *)
(* the academic year, frequencies                                          *)
RecurringDurations == {60, 90}
StartDates == {20260501, 20260630, 20260701}
Frequencies == {"weekly", "biweekly"}
(* the client who asks for recurring bookings *)
RecurringClients == {1}

(* SELECT value FROM settings WHERE key = 'lesson_<duration>_price':       *)
(* Null when there is no such row                                          *)
PriceSetting(duration) ==
    IF duration = 30 THEN settings.lesson_30_price
    ELSE IF duration = 45 THEN settings.lesson_45_price
    ELSE IF duration = 60 THEN settings.lesson_60_price
    ELSE Null

(* four lessons a month whatever the frequency *)
lessonsPerMonth_AlwaysFour(frequency) == 4

(* const lessonsPerMonth = frequency === 'weekly' ? 4 : 2 *)
lessonsPerMonth(frequency) == IF frequency = "weekly" THEN 4 ELSE 2

(* POST /recurring: SELECT value FROM settings WHERE key = priceKey; no    *)
(* row answers 400, otherwise price = parseFloat(priceResult.value)        *)
RecurringCreate(w, u, duration, frequency, start_date) ==
    /\ FreeWorker(w)
    /\ Len(recurring) + InFlight({"recurring_end", "recurring_insert"})
          < MaxRecurring
    /\ ops' = ops + 1
    /\ UNCHANGED <<now, bookings, payments, settings>>
    /\ UNCHANGED aside
    /\ IF PriceSetting(duration) = Null
       THEN Reply(w, "recurring", 0, "invalid_duration")
       ELSE /\ reqs' = [reqs EXCEPT ![w] =
                   [Idle EXCEPT !.pc = "recurring_end", !.user = u,
                                !.duration = duration,
                                !.price = PriceSetting(duration),
                                !.frequency = frequency,
                                !.cursor = start_date]]
            /\ UNCHANGED last

(* SELECT value FROM settings WHERE key = 'academic_year_end' *)
RecurringYearEnd(w) ==
    /\ reqs[w].pc = "recurring_end"
    /\ reqs' = [reqs EXCEPT ![w] =
          [@ EXCEPT !.pc = "recurring_insert",
                    !.end_date = settings.academic_year_end]]
    /\ UNCHANGED <<now, bookings, payments, settings, last, ops>>
    /\ UNCHANGED aside

(* INSERT INTO recurring_bookings, then generateBillingCycles up to its    *)
(* loop: currentDate = new Date(start.getFullYear(), start.getMonth(), 1)  *)
RecurringInsert(w) ==
    /\ reqs[w].pc = "recurring_insert"
    /\ LET r == reqs[w]
       IN  /\ recurring' = Append(recurring,
                 [user_id |-> r.user, duration |-> r.duration,
                  price |-> r.price, frequency |-> r.frequency,
                  start_date |-> r.cursor, end_date |-> r.end_date])
           /\ reqs' = [reqs EXCEPT ![w] =
                 [r EXCEPT !.pc = "billing", !.id = Len(recurring) + 1,
                           !.cursor = NewDate(DateGetFullYear(r.cursor),
                                              DateGetMonth(r.cursor), 1)]]
    /\ UNCHANGED <<now, bookings, payments, settings, last, ops>>
    /\ UNCHANGED <<makeups, sessions, cycles, google, events, answer,
                   sync_log, notices,
                   phones, twilio>>

(* the INSERT INTO recurring_bookings fails: the catch answers 500 *)
RecurringInsertFails(w) ==
    /\ reqs[w].pc = "recurring_insert"
    /\ Reply(w, "recurring", 0, "failed")
    /\ UNCHANGED <<now, bookings, payments, settings, ops>>
    /\ UNCHANGED aside

(* one turn of the loop: INSERT INTO billing_cycles, then the next month *)
BillingInsert(w) ==
    /\ reqs[w].pc = "billing"
    /\ reqs[w].cursor <= reqs[w].end_date
    /\ LET r == reqs[w]
           cycleMonth == DateGetMonth(r.cursor) + 1
           cycleYear == DateGetFullYear(r.cursor)
       IN  /\ cycles' = Append(cycles,
                 [user_id |-> r.user, recurring_booking_id |-> r.id,
                  cycle_month |-> cycleMonth, cycle_year |-> cycleYear,
                  total_amount |-> r.price * lessonsPerMonth(r.frequency),
                  lessons_count |-> lessonsPerMonth(r.frequency),
                  billing_date |-> NewDate(cycleYear, cycleMonth - 1, 1),
                  due_date |-> NewDate(cycleYear, cycleMonth - 1, 15),
                  status |-> "pending"])
           /\ reqs' = [reqs EXCEPT ![w] =
                 [r EXCEPT !.cursor = NewDate(DateGetFullYear(r.cursor),
                                              DateGetMonth(r.cursor) + 1, 1)]]
    /\ UNCHANGED <<now, bookings, payments, settings, last, ops>>
    /\ UNCHANGED <<makeups, sessions, recurring, google, events, answer,
                   sync_log, notices,
                   phones, twilio>>

(* an INSERT INTO billing_cycles fails: the error leaves the loop and the  *)
(* handler's catch answers 500                                             *)
BillingInsertFails(w) ==
    /\ reqs[w].pc = "billing"
    /\ reqs[w].cursor <= reqs[w].end_date
    /\ Reply(w, "recurring", reqs[w].id, "failed")
    /\ UNCHANGED <<now, bookings, payments, settings, ops>>
    /\ UNCHANGED aside

(* the loop ends (currentDate > end) and the handler answers *)
BillingDone(w) ==
    /\ reqs[w].pc = "billing"
    /\ ~(reqs[w].cursor <= reqs[w].end_date)
    /\ Reply(w, "recurring", reqs[w].id, "created")
    /\ UNCHANGED <<now, bookings, payments, settings, ops>>
    /\ UNCHANGED aside

RecurringRequest ==
    \E w \in Workers, u \in RecurringClients, d \in RecurringDurations,
       f \in Frequencies, sd \in StartDates : RecurringCreate(w, u, d, f, sd)

NextBilling ==
    \/ ops < MaxBillingOps /\ RecurringRequest
    \/ \E w \in Workers : RecurringYearEnd(w)
    \/ \E w \in Workers : RecurringInsert(w)
    \/ \E w \in Workers : RecurringInsertFails(w)
    \/ \E w \in Workers : BillingInsert(w)
    \/ \E w \in Workers : BillingInsertFails(w)
    \/ \E w \in Workers : BillingDone(w)

SpecBilling == Init /\ [][NextBilling]_vars

----------------------------------------------------------------------------
(* GoogleCalendarService: initialize, refreshAccessToken and the try/catch *)
(* around the API call of getBusyTimes, createBookingEvent,                *)
(* updateBookingEvent and deleteBookingEvent.  google.connected says that  *)
(* users holds an access token, google.access_token counts the tokens      *)
(* stored so far, google.isInitialized is the service's field.             *)

(* what the sync steps leave alone *)
besideSync == <<now, payments, settings, makeups, sessions, recurring, cycles,
                answer, notices,
                   phones, twilio>>

(* how an awaited call of the Google API ends when it returns: 2xx, 401,   *)
(* another error                                                           *)
GoogleApi == {"ok", "unauthorized", "error"}

(* a calendar_sync_log row *)
SyncLogRow(action, booking_id, google_event_id, status) ==
    [action |-> action, booking_id |-> booking_id,
     google_event_id |-> google_event_id, status |-> status]

(* response.data.id of events.insert *)
NewEventId == Cardinality(events) + 1

(* the calendar after the API call of request r succeeded *)
EventsAfter(r) ==
    LET start == r.lesson_date
        end == addMinutes(r.lesson_date, r.duration)
    IN  IF r.call \in {"create", "sync_create", "full_sync", "manual_sync"}
        THEN events \cup {[id |-> NewEventId, status |-> "confirmed",
                           start |-> start, end |-> end]}
        ELSE IF r.call = "busy" THEN events
        ELSE {IF e.id # r.event THEN e
              ELSE IF r.call = "update"
                   THEN [e EXCEPT !.start = start, !.end = end]
                   ELSE [e EXCEPT !.status = "cancelled"] : e \in events}

(* getBusyTimes(startDate, endDate) when events.list answers: the events   *)
(* that end after timeMin and start before timeMax, the cancelled ones     *)
(* filtered out                                                            *)
getBusyTimes(startDate, endDate) ==
    {[start |-> e.start, end |-> e.end] :
        e \in {x \in events : /\ x.end > startDate /\ x.start < endDate
                               /\ x.status # "cancelled"}}

(* for (const booking of unsyncedBookings): the sweep r goes on with the   *)
(* next row of its SELECT and enters createBookingEvent, or is over        *)
NextRow(r) ==
    IF r.queue = << >> THEN Idle
    ELSE CallingGoogle([Idle EXCEPT !.id = Head(r.queue).id,
                                    !.user = Head(r.queue).user_id,
                                    !.lesson_date = Head(r.queue).lesson_date,
                                    !.duration = Head(r.queue).duration,
                                    !.queue = Tail(r.queue)],
                       r.call, Null)

(* the method returns null, false or [] to its caller.  performSync does   *)
(* nothing with a null and goes on with its loop; the other callers await  *)
(* a statement of their own next                                           *)
MethodFails(r) ==
    IF r.call = "sync_create" THEN NextRow(r)
    ELSE [r EXCEPT !.pc = "gcal_done", !.synced = FALSE, !.origin = ""]

(* initialize() has returned true: the manual sync, which awaited it       *)
(* itself, goes on to its SELECT, a method of the service to its API call  *)
Initialized(r) ==
    [r EXCEPT !.pc = IF r.call = "manual_init" THEN "manual_select"
                     ELSE "gcal_call",
              !.origin = ""]

(* initialize() has returned false: the manual sync drops the answer and   *)
(* goes on to its SELECT; a method goes on to its API call only if         *)
(* (this.isInitialized)                                                    *)
AfterInitialize(r) ==
    IF r.call = "manual_init" \/ google.isInitialized THEN Initialized(r)
    ELSE MethodFails(r)

(* the 401 answers are finitely many: one is given while a further token   *)
(* may be stored                                                           *)
TokensLeft ==
    google.access_token + InFlight({"gcal_refresh", "gcal_store", "auth_store"})
        < MaxRefresh

(* initialize(): SELECT google_access_token, ... FROM users WHERE role =   *)
(* 'admin' AND google_access_token IS NOT NULL; no row returns false       *)
initialize(w) ==
    /\ reqs[w].pc = "gcal_init"
    /\ reqs' = [reqs EXCEPT ![w] =
          IF google.connected THEN [reqs[w] EXCEPT !.pc = "gcal_list"]
          ELSE AfterInitialize(reqs[w])]
    /\ UNCHANGED <<bookings, google, events, sync_log, last, ops, besideSync>>

(* initialize(): await this.calendar.calendarList.list(); then             *)
(* this.isInitialized = true, or on 401 refreshAccessToken() is awaited,   *)
(* or false is returned                                                    *)
initializeList(w, api) ==
    /\ reqs[w].pc = "gcal_list"
    /\ api = "unauthorized" => TokensLeft
    /\ google' = IF api = "ok" THEN [google EXCEPT !.isInitialized = TRUE]
                 ELSE google
    /\ reqs' = [reqs EXCEPT ![w] =
          IF api = "ok" THEN Initialized(reqs[w])
          ELSE IF api = "unauthorized"
          THEN [reqs[w] EXCEPT !.pc = "gcal_refresh", !.origin = "init"]
          ELSE AfterInitialize(reqs[w])]
    /\ UNCHANGED <<bookings, events, sync_log, last, ops, besideSync>>

(* refreshAccessToken(): await this.oauth2Client.refreshAccessToken(); it  *)
(* answers and the UPDATE of users is awaited, or it throws and false is   *)
(* returned to initialize's caller or to the catch of the API call         *)
refreshAccessToken(w, refreshed) ==
    /\ reqs[w].pc = "gcal_refresh"
    /\ reqs' = [reqs EXCEPT ![w] =
          IF refreshed THEN [reqs[w] EXCEPT !.pc = "gcal_store"]
          ELSE IF reqs[w].origin = "init" THEN AfterInitialize(reqs[w])
          ELSE MethodFails(reqs[w])]
    /\ UNCHANGED <<bookings, google, events, sync_log, last, ops, besideSync>>

(* refreshAccessToken(): UPDATE users SET google_access_token = ?, ...     *)
(* WHERE role = 'admin', then this.isInitialized = true; true is returned: *)
(* initialize() returns it to its caller, and a method whose API call was  *)
(* answered 401 makes that call a second time                              *)
refreshAccessTokenStore(w) ==
    /\ reqs[w].pc = "gcal_store"
    /\ google' = [google EXCEPT !.access_token = @ + 1, !.connected = TRUE,
                                !.isInitialized = TRUE]
    /\ reqs' = [reqs EXCEPT ![w] = Initialized(reqs[w])]
    /\ UNCHANGED <<bookings, events, sync_log, last, ops, besideSync>>

(* the awaited events.list/insert/update/delete: its answer is returned,   *)
(* or on 401 refreshAccessToken() is awaited, or the catch returns nothing *)
CalendarCall(w, api) ==
    /\ reqs[w].pc = "gcal_call"
    /\ api = "unauthorized" => TokensLeft
    /\ LET r == [reqs[w] EXCEPT !.attempts = @ + 1]
       IN  /\ events' = IF api = "ok" THEN EventsAfter(r) ELSE events
           /\ reqs' = [reqs EXCEPT ![w] =
                 IF api = "ok"
                 THEN [r EXCEPT
                         !.pc = "gcal_done", !.synced = TRUE,
                         !.event = IF r.call \in {"create", "sync_create",
                                                  "full_sync", "manual_sync"}
                                   THEN NewEventId ELSE @,
                         !.busy = IF r.call = "busy"
                                  THEN getBusyTimes(
                                           DayTime(r.date, r.startHour),
                                           DayTime(r.date, r.endHour))
                                  ELSE @]
                 ELSE IF api = "unauthorized"
                 THEN [r EXCEPT !.pc = "gcal_refresh", !.origin = "call"]
                 ELSE MethodFails(r)]
    /\ UNCHANGED <<bookings, google, sync_log, last, ops, besideSync>>

(* GET /calendar/auth/callback, handleAuthCallback: await                  *)
(* this.oauth2Client.getToken(code); it answers and the UPDATE of users is *)
(* awaited, or it throws, false is returned and the request is redirected  *)
(* with calendar_error=auth_failed                                         *)
handleAuthCallback(w, tokenOk) ==
    /\ FreeWorker(w)
    /\ tokenOk => TokensLeft
    /\ ops' = ops + 1
    /\ UNCHANGED <<bookings, google, events, sync_log, besideSync>>
    /\ IF tokenOk
       THEN /\ reqs' = [reqs EXCEPT ![w] = [Idle EXCEPT !.pc = "auth_store"]]
            /\ UNCHANGED last
       ELSE Reply(w, "calendar_auth", 0, "auth_failed")

(* handleAuthCallback: UPDATE users SET google_access_token = ?, ...,      *)
(* calendar_sync_enabled = 1 WHERE role = 'admin', then this.isInitialized *)
(* = true, true is returned and the request is redirected with             *)
(* calendar_success=1                                                      *)
handleAuthCallbackStore(w) ==
    /\ reqs[w].pc = "auth_store"
    /\ google' = [connected |-> TRUE, access_token |-> google.access_token + 1,
                  isInitialized |-> TRUE, calendar_sync_enabled |-> TRUE]
    /\ Reply(w, "calendar_auth", 0, "connected")
    /\ UNCHANGED <<bookings, events, sync_log, ops, besideSync>>

(* POST /calendar/sync/toggle: UPDATE users SET calendar_sync_enabled = ? *)
ToggleSync(enabled) ==
    /\ ops' = ops + 1
    /\ google' = [google EXCEPT !.calendar_sync_enabled = enabled]
    /\ last' = Response("calendar_toggle", 0,
                        IF enabled THEN "enabled" ELSE "disabled")
    /\ UNCHANGED <<bookings, events, sync_log, reqs, besideSync>>

(* POST /calendar/disconnect: the stored tokens set to NULL and            *)
(* calendar_sync_enabled to 0; the service keeps its credentials in memory *)
(* and stays initialized                                                   *)
Disconnect ==
    /\ ops' = ops + 1
    /\ google' = [google EXCEPT !.connected = FALSE,
                                !.calendar_sync_enabled = FALSE]
    /\ last' = Response("calendar_disconnect", 0, "disconnected")
    /\ UNCHANGED <<bookings, events, sync_log, reqs, besideSync>>

(* the admin's calendar settings requests *)
CalendarAdminRequest ==
    \/ \E w \in Workers, tokenOk \in BOOLEAN : handleAuthCallback(w, tokenOk)
    \/ \E enabled \in BOOLEAN : ToggleSync(enabled)
    \/ Disconnect

(* the steps of worker w inside the service that the store answers *)
ServiceStep(w) ==
    \/ initialize(w)
    \/ refreshAccessTokenStore(w)

(* the steps of worker w inside the service that Google answers *)
GoogleAnswers(w) ==
    \/ \E api \in GoogleApi : initializeList(w, api)
    \/ \E refreshed \in BOOLEAN : refreshAccessToken(w, refreshed)
    \/ \E api \in GoogleApi : CalendarCall(w, api)

----------------------------------------------------------------------------
(* Availability: GET /calendar/availability/:date (getAvailableSlots with  *)
(* the Google Calendar busy times) and GET /bookings/availability/:date.   *)
(* A date 'YYYY-MM-DD' is its day number (2025-11-01 = 0).                 *)

(* the dates asked *)
AvailabilityDates == {9, 24, 29}

(* events of the instructor's calendar on 2025-11-10: none, 09:30-10:15,   *)
(* or 16:00-18:30                                                          *)
CalendarChoices ==
    {{},
     {[id |-> 1, status |-> "confirmed",
       start |-> DayTime(9, 9 * 60 + 30), end |-> DayTime(9, 10 * 60 + 15)]},
     {[id |-> 1, status |-> "confirmed",
       start |-> DayTime(9, 16 * 60), end |-> DayTime(9, 18 * 60 + 30)]}}

RECURSIVE SlotsFrom(_, _, _)
(* while (currentTime < dayEnd): push the slot if slotEnd <= dayEnd, then  *)
(* step 30 minutes                                                         *)
SlotsFrom(currentTime, dayEnd, duration) ==
    IF ~(currentTime < dayEnd) THEN << >>
    ELSE LET slotEnd == addMinutes(currentTime, duration)
             rest == SlotsFrom(addMinutes(currentTime, 30), dayEnd, duration)
         IN  IF slotEnd <= dayEnd
             THEN <<[start |-> currentTime, end |-> slotEnd]>> \o rest
             ELSE rest

(* slotStart < busyEnd && slotEnd > busyStart *)
Overlaps(slotStart, slotEnd, otherStart, otherEnd) ==
    slotStart < otherEnd /\ slotEnd > otherStart

(* SELECT lesson_date, duration FROM bookings WHERE DATE(lesson_date) = ?  *)
(* AND status IN ('confirmed', 'pending')                                  *)
existingBookings(date) ==
    {i \in BookingIds : /\ UTCDate(bookings[i].lesson_date) = date
                        /\ bookings[i].status \in {"confirmed", "pending"}}

(* getAvailableSlots(date, duration) with the business hours it has read   *)
(* and the busyTimes getBusyTimes has returned: the slots that overlap     *)
(* neither a busy time nor one of the rows of existingBookings             *)
getAvailableSlots(date, duration, businessStartMin, businessEndMin,
                  busyTimes) ==
    LET dayStart == DayTime(date, businessStartMin)
        dayEnd == DayTime(date, businessEndMin)
        slots == SlotsFrom(dayStart, dayEnd, duration)
        Busy(slot) == \E b \in busyTimes :
                          Overlaps(slot.start, slot.end, b.start, b.end)
        Booked(slot) == \E i \in existingBookings(date) :
                            Overlaps(slot.start, slot.end,
                                     bookings[i].lesson_date,
                                     addMinutes(bookings[i].lesson_date,
                                                bookings[i].duration))
    IN  SelectSeq(slots, LAMBDA slot : ~Busy(slot) /\ ~Booked(slot))

(* GET /calendar/availability/:date?duration= : the request enters         *)
(* getAvailableSlots: SELECT value FROM settings WHERE key =               *)
(* 'business_hours_start'                                                  *)
CalendarAvailability(w, date, duration) ==
    /\ FreeWorker(w)
    /\ reqs' = [reqs EXCEPT ![w] =
          [Idle EXCEPT !.pc = "avail_end", !.date = date,
                       !.duration = duration,
                       !.startHour = settings.business_hours_start]]
    /\ ops' = ops + 1
    /\ UNCHANGED <<now, bookings, payments, settings, last, aside>>

(* SELECT value FROM settings WHERE key = 'business_hours_end'; the slots  *)
(* of the day are generated and getBusyTimes(dayStart, dayEnd) is entered  *)
CalendarHoursEnd(w) ==
    /\ reqs[w].pc = "avail_end"
    /\ reqs' = [reqs EXCEPT ![w] =
          CallingGoogle([reqs[w] EXCEPT !.endHour = settings.business_hours_end],
                        "busy", Null)]
    /\ UNCHANGED <<now, bookings, payments, settings, last, ops, aside>>

(* getBusyTimes has returned: the SELECT of the day's bookings, then the   *)
(* answer                                                                  *)
CalendarSlots(w) ==
    /\ reqs[w].pc = "gcal_done" /\ reqs[w].call = "busy"
    /\ answer' = [route |-> "calendar", date |-> reqs[w].date,
                  duration |-> reqs[w].duration, busy |-> reqs[w].busy,
                  slots |-> getAvailableSlots(reqs[w].date, reqs[w].duration,
                                              reqs[w].startHour,
                                              reqs[w].endHour, reqs[w].busy)]
    /\ reqs' = [reqs EXCEPT ![w] = Idle]
    /\ UNCHANGED <<now, bookings, payments, settings, last, ops>>
    /\ UNCHANGED <<makeups, sessions, recurring, cycles, google, events,
                   sync_log, notices,
                   phones, twilio>>

(* SELECT id FROM bookings WHERE DATE(lesson_date) = DATE(?) AND           *)
(* TIME(lesson_date) = TIME(?) AND status NOT IN ('cancelled','completed') *)
existingBooking(slotTime) ==
    \E i \in BookingIds : /\ bookings[i].lesson_date = slotTime
                          /\ bookings[i].status \notin {"cancelled", "completed"}

(* const businessStart = 9; const businessEnd = 18 *)
businessStart == 9
businessEnd == 18

(* GET /bookings/availability/:date: the loop starts at hour 9 *)
BookingsAvailability(w, date) ==
    /\ FreeWorker(w)
    /\ reqs' = [reqs EXCEPT ![w] =
          [Idle EXCEPT !.pc = "avail_hour", !.date = date,
                       !.cursor = businessStart]]
    /\ ops' = ops + 1
    /\ UNCHANGED <<now, bookings, payments, settings, last, aside>>

(* one turn of the loop: the awaited SELECT for the hour and the slot      *)
(* pushed; after the last hour the answer                                  *)
BookingsSlot(w) ==
    /\ reqs[w].pc = "avail_hour"
    /\ LET r == reqs[w]
           slotTime == r.date * SecondsPerDay + r.cursor * SecondsPerHour
           availableSlots == Append(r.slots,
               [start |-> slotTime, available |-> ~existingBooking(slotTime)])
       IN  IF r.cursor + 1 < businessEnd
           THEN /\ reqs' = [reqs EXCEPT ![w] =
                       [r EXCEPT !.cursor = @ + 1, !.slots = availableSlots]]
                /\ UNCHANGED answer
           ELSE /\ reqs' = [reqs EXCEPT ![w] = Idle]
                /\ answer' = [route |-> "bookings", date |-> r.date,
                              duration |-> 60, busy |-> {},
                              slots |-> availableSlots]
    /\ UNCHANGED <<now, bookings, payments, settings, last, ops>>
    /\ UNCHANGED <<makeups, sessions, recurring, cycles, google, events,
                   sync_log, notices,
                   phones, twilio>>

(* stores the availability is asked of.  Booking 1 is the seeded lesson of *)
(* the demo client: on 2025-11-16, a day that is not asked about; on       *)
(* 2025-11-10 at 14:00, set to pending; moved to 15:00 by its owner and    *)
(* cancelled, with a 45-minute lesson of user 1 at 14:00 that the admin    *)
(* has confirmed; moved to 15:00 and marked rescheduled by the admin       *)
AvailabilityStores ==
    {<<seedDatabase(ClockStart)>>,
     <<NewBooking(2, Nov10_14, 60)>>,
     <<[MovedBooking(2, Nov10_14, Nov10_15, 60) EXCEPT !.status = "cancelled"],
       [NewBooking(1, Nov10_14, 45) EXCEPT !.status = "confirmed"]>>,
     <<[MovedBooking(2, Nov10_14, Nov10_15, 60) EXCEPT
           !.status = "rescheduled"]>>}

InitAvailability ==
    /\ now = ClockStart
    /\ bookings \in AvailabilityStores
    /\ payments = << >>
    /\ settings = DefaultSettings
    /\ reqs = [w \in Workers |-> Idle]
    /\ last = NoResponse
    /\ ops = 0
    /\ makeups = << >>
    /\ sessions = << >>
    /\ recurring = << >>
    /\ cycles = << >>
    /\ \E connected \in BOOLEAN : google = [NoGoogle EXCEPT !.connected = connected]
    /\ events \in CalendarChoices
    /\ answer = NoAnswer
    /\ sync_log = << >>
    /\ notices = {}
    /\ phones = SeededPhones
    /\ twilio = TRUE

CalendarAvailabilityRequest ==
    \E w \in Workers, date \in AvailabilityDates, duration \in Durations :
        CalendarAvailability(w, date, duration)

BookingsAvailabilityRequest ==
    \E w \in Workers, date \in AvailabilityDates : BookingsAvailability(w, date)

(* the later steps of the availability requests in flight *)
AvailabilityStep ==
    \E w \in Workers :
        \/ CalendarHoursEnd(w)
        \/ ServiceStep(w)
        \/ GoogleAnswers(w)
        \/ CalendarSlots(w)
        \/ BookingsSlot(w)

(* availability requests only: nothing else writes between two of them *)
NextAvailability ==
    \/ ops < MaxAvailOps /\ CalendarAvailabilityRequest
    \/ ops < MaxAvailOps /\ BookingsAvailabilityRequest
    \/ AvailabilityStep

SpecAvailability == InitAvailability /\ [][NextAvailability]_vars

(* requests that write the bookings an availability request reads: a new   *)
(* lesson at 15:00, the move of a lesson between 14:00 and 15:00, a        *)
(* cancellation, the admin's status update                                 *)
AvailabilityWriteRequest ==
    \/ \E w \in Workers, u \in Users : CreateBegin(w, u, Nov10_15, NoDate, 60)
    \/ \E w \in Workers, u \in Users, id \in 1..MaxBookings,
          ld \in {Nov10_14, Nov10_15} :
          ReschedulePolicy(w, u, id, ld, Nov30_10)
    \/ CancelRequest
    \/ AdminRequest

(* their later steps; every lesson is at least 24 h ahead, so a            *)
(* cancellation takes the free path                                        *)
AvailabilityWriteStep ==
    \E w \in Workers :
        \/ CreateStep(w)
        \/ RescheduleStep(w)
        \/ CancelWindow(w)
        \/ CancelFree(w)
        \/ CancelWrite(w)
        \/ CancelSyncEnabled(w)

(* availability requests in flight while the bookings are written *)
NextAvailabilityWrites ==
    \/ ops < MaxAvailOps /\ CalendarAvailabilityRequest
    \/ ops < MaxAvailOps /\ BookingsAvailabilityRequest
    \/ ops < MaxAvailOps /\ AvailabilityWriteRequest
    \/ AvailabilityStep
    \/ AvailabilityWriteStep

SpecAvailabilityWrites == InitAvailability /\ [][NextAvailabilityWrites]_vars

----------------------------------------------------------------------------
(* Payments: POST /payments/venmo-link, POST /payments/zelle-info, the     *)
(* Stripe payment intent and its webhook, and PUT /payments/:id/complete.  *)
(* StripeService.refundPayment is called by no route, webhook or job, and  *)
(* enforceNoRefundsPolicy is mounted on no route: no step of NextPayments  *)
(* refunds, and NextStripeService adds the direct calls of the method.     *)

(* payment_reference of the admin's body *)
PaymentReferences == {"", "venmo-4471"}

(* POST /payments/venmo-link: a body without booking_id is answered 400;   *)
(* SELECT * FROM bookings WHERE id = ? AND user_id = ?, no row 404         *)
VenmoLink(w, u, id) ==
    /\ FreeWorker(w)
    /\ ops' = ops + 1
    /\ Len(payments) + PaymentsInFlight < MaxPayments
    /\ UNCHANGED <<now, bookings, payments, settings, aside>>
    /\ IF id = Null THEN Reply(w, "venmo_link", id, "validation")
       ELSE IF ~OwnedBooking(id, u) THEN Reply(w, "venmo_link", id, "not_found")
       ELSE /\ reqs' = [reqs EXCEPT ![w] =
                   [Idle EXCEPT !.pc = "venmo_setting", !.user = u, !.id = id,
                                !.price = bookings[id].price]]
            /\ UNCHANGED last

(* SELECT value FROM settings WHERE key = 'venmo_username' *)
VenmoSetting(w) ==
    /\ reqs[w].pc = "venmo_setting"
    /\ reqs' = [reqs EXCEPT ![w].pc = "venmo_insert"]
    /\ UNCHANGED <<now, bookings, payments, settings, last, ops, aside>>

(* INSERT INTO payments (booking_id, amount, payment_method, status)       *)
(* VALUES (?, ?, 'venmo', 'pending') with the price the SELECT has read    *)
VenmoInsert(w) ==
    /\ reqs[w].pc = "venmo_insert"
    /\ payments' = Append(payments,
          [booking_id |-> reqs[w].id, amount |-> reqs[w].price,
           payment_method |-> "venmo", status |-> "pending",
           payment_reference |-> "", intent |-> FALSE])
    /\ reqs' = [reqs EXCEPT ![w].pc = "venmo_link"]
    /\ UNCHANGED <<now, bookings, settings, last, ops, aside>>

(* UPDATE payments SET venmo_link = ? WHERE id = ?, then the answer *)
VenmoLinkStored(w) ==
    /\ reqs[w].pc = "venmo_link"
    /\ Reply(w, "venmo_link", reqs[w].id, "created")
    /\ UNCHANGED <<now, bookings, payments, settings, ops, aside>>

(* POST /payments/zelle-info: a body without booking_id is answered 400;   *)
(* SELECT * FROM bookings WHERE id = ? AND user_id = ?, no row 404         *)
ZelleInfo(w, u, id) ==
    /\ FreeWorker(w)
    /\ ops' = ops + 1
    /\ Len(payments) + PaymentsInFlight < MaxPayments
    /\ UNCHANGED <<now, bookings, payments, settings, aside>>
    /\ IF id = Null THEN Reply(w, "zelle_info", id, "validation")
       ELSE IF ~OwnedBooking(id, u) THEN Reply(w, "zelle_info", id, "not_found")
       ELSE /\ reqs' = [reqs EXCEPT ![w] =
                   [Idle EXCEPT !.pc = "zelle_setting", !.user = u, !.id = id,
                                !.price = bookings[id].price]]
            /\ UNCHANGED last

(* SELECT value FROM settings WHERE key = 'zelle_email' *)
ZelleSetting(w) ==
    /\ reqs[w].pc = "zelle_setting"
    /\ reqs' = [reqs EXCEPT ![w].pc = "zelle_insert"]
    /\ UNCHANGED <<now, bookings, payments, settings, last, ops, aside>>

(* INSERT INTO payments (booking_id, amount, payment_method, status)       *)
(* VALUES (?, ?, 'zelle', 'pending') with the price the SELECT has read    *)
ZelleInsert(w) ==
    /\ reqs[w].pc = "zelle_insert"
    /\ payments' = Append(payments,
          [booking_id |-> reqs[w].id, amount |-> reqs[w].price,
           payment_method |-> "zelle", status |-> "pending",
           payment_reference |-> "", intent |-> FALSE])
    /\ reqs' = [reqs EXCEPT ![w].pc = "zelle_reference"]
    /\ UNCHANGED <<now, bookings, settings, last, ops, aside>>

(* UPDATE payments SET zelle_reference = ? WHERE id = ?, then the answer *)
ZelleReferenceStored(w) ==
    /\ reqs[w].pc = "zelle_reference"
    /\ Reply(w, "zelle_info", reqs[w].id, "created")
    /\ UNCHANGED <<now, bookings, payments, settings, ops, aside>>

(* PUT /payments/:id/complete by the admin: UPDATE payments SET status =   *)
(* 'completed', payment_reference = ? WHERE id = ?                         *)
CompletePayment(id, payment_reference) ==
    /\ ops' = ops + 1
    /\ payments' = [p \in 1..Len(payments) |->
                       IF p = id
                       THEN [payments[p] EXCEPT
                                !.status = "completed",
                                !.payment_reference = payment_reference]
                       ELSE payments[p]]
    /\ last' = Response("payment_complete", id, "completed")
    /\ UNCHANGED <<now, bookings, settings, reqs, aside>>

VenmoLinkRequest ==
    \E w \in Workers, u \in Users, id \in (1..MaxBookings) \cup {Null} :
        VenmoLink(w, u, id)

ZelleInfoRequest ==
    \E w \in Workers, u \in Users, id \in (1..MaxBookings) \cup {Null} :
        ZelleInfo(w, u, id)

(* the later steps of the Venmo and Zelle requests in flight *)
TransferStep ==
    \E w \in Workers :
        \/ VenmoSetting(w)
        \/ VenmoInsert(w)
        \/ VenmoLinkStored(w)
        \/ ZelleSetting(w)
        \/ ZelleInsert(w)
        \/ ZelleReferenceStored(w)

CompletePaymentRequest ==
    \E id \in 1..MaxPayments, ref \in PaymentReferences : CompletePayment(id, ref)

(* the payment operations over a store holding two pending lessons *)
NextPayments ==
    \/ ops < MaxPaymentOps /\ VenmoLinkRequest
    \/ ops < MaxPaymentOps /\ ZelleInfoRequest
    \/ ops < MaxPaymentOps /\ PaymentIntentRequest
    \/ ops < MaxPaymentOps /\ CompletePaymentRequest
    \/ ops < MaxPaymentOps /\ PaymentSucceeded
    \/ ops < MaxPaymentOps /\ PaymentFailed
    \/ PaymentStep
    \/ TransferStep

SpecPayments == InitBooked /\ [][NextPayments]_vars

(* the payment operations together with direct calls of                    *)
(* stripeService.refundPayment, which the server's routes, webhook and    *)
(* jobs never make                                                         *)
NextStripeService ==
    \/ NextPayments
    \/ /\ ops < MaxPaymentOps
       /\ \E w \in Workers, p \in 0..MaxPayments, stripeOk \in BOOLEAN :
             refundPayment(w, p, stripeOk)
    \/ \E w \in Workers : refundPaymentStore(w)

SpecStripeService == InitBooked /\ [][NextStripeService]_vars

----------------------------------------------------------------------------
(* Google Calendar sync: GoogleCalendarService.initialize,                 *)
(* refreshAccessToken, createBookingEvent, updateBookingEvent and          *)
(* deleteBookingEvent as called by POST/PUT/DELETE /bookings and by        *)
(* CalendarSyncService.performSync                                         *)

(* a failed calendar push answered as a failed booking *)
CreateSynced_FailsOnSyncError(w) ==
    /\ reqs[w].pc = "gcal_done" /\ reqs[w].call = "create"
    /\ LET r == reqs[w]
       IN  IF r.synced
           THEN /\ bookings' = [bookings EXCEPT
                       ![r.id].google_calendar_event_id = r.event]
                /\ reqs' = [reqs EXCEPT ![w].pc = "create_log"]
                /\ UNCHANGED <<sync_log, last>>
           ELSE /\ UNCHANGED bookings
                /\ sync_log' = Append(sync_log,
                       SyncLogRow("create", r.id, Null, "error"))
                /\ Reply(w, "create", r.id, "error")
    /\ UNCHANGED <<google, events, ops, besideSync>>

(* POST /bookings after createBookingEvent: if (googleEventId) UPDATE      *)
(* bookings SET google_calendar_event_id = ? WHERE id = ?; else INSERT     *)
(* INTO calendar_sync_log an error row, then 201                           *)
CreateSynced(w) ==
    /\ reqs[w].pc = "gcal_done" /\ reqs[w].call = "create"
    /\ LET r == reqs[w]
       IN  IF r.synced
           THEN /\ bookings' = [bookings EXCEPT
                       ![r.id].google_calendar_event_id = r.event]
                /\ reqs' = [reqs EXCEPT ![w].pc = "create_log"]
                /\ UNCHANGED <<sync_log, last>>
           ELSE /\ UNCHANGED bookings
                /\ sync_log' = Append(sync_log,
                       SyncLogRow("create", r.id, Null, "error"))
                /\ Reply(w, "create", r.id, "created")
    /\ UNCHANGED <<google, events, ops, besideSync>>

(* INSERT INTO calendar_sync_log the success row, then 201 *)
CreateLogged(w) ==
    /\ reqs[w].pc = "create_log"
    /\ sync_log' = Append(sync_log,
          SyncLogRow("create", reqs[w].id, reqs[w].event, "success"))
    /\ Reply(w, "create", reqs[w].id, "created")
    /\ UNCHANGED <<bookings, google, events, ops, besideSync>>

(* PUT /bookings/:id after updateBookingEvent: the result logged, then 200 *)
RescheduleSynced(w) ==
    /\ reqs[w].pc = "gcal_done" /\ reqs[w].call = "update"
    /\ LET r == reqs[w]
       IN  /\ sync_log' = Append(sync_log,
                 SyncLogRow("update", r.id, r.event,
                            IF r.synced THEN "success" ELSE "error"))
           /\ Reply(w, "reschedule", r.id, "rescheduled")
    /\ UNCHANGED <<bookings, google, events, ops, besideSync>>

(* DELETE /bookings/:id after deleteBookingEvent: the result logged, then  *)
(* 200                                                                     *)
CancelSynced(w) ==
    /\ reqs[w].pc = "gcal_done" /\ reqs[w].call = "delete"
    /\ LET r == reqs[w]
       IN  /\ sync_log' = Append(sync_log,
                 SyncLogRow("delete", r.id, r.event,
                            IF r.synced THEN "success" ELSE "error"))
           /\ Reply(w, "cancel", r.id, "cancelled")
    /\ UNCHANGED <<bookings, google, events, ops, besideSync>>

(* codes of the characters 'T' and ' ' *)
CharT == 84
CharSpace == 32

(* new Date(x).toISOString(), the TEXT stored in bookings.lesson_date:     *)
(* 'YYYY-MM-DDTHH:mm:ss.sssZ' as the day, the character after it and the   *)
(* second of the day                                                       *)
toISOString(t) == <<UTCDate(t), CharT, t % SecondsPerDay>>

(* SQLite's datetime(t): 'YYYY-MM-DD HH:MM:SS' *)
datetime(t) == <<UTCDate(t), CharSpace, t % SecondsPerDay>>

(* a > b on two TEXT values: the first place where they differ decides *)
TextGreater(a, b) ==
    \E k \in 1..3 : a[k] > b[k] /\ \A j \in 1..(k - 1) : a[j] = b[j]

(* b.google_calendar_event_id IS NULL AND b.status IN ('confirmed',        *)
(* 'pending') AND b.lesson_date > datetime('now')                          *)
Unsynced(i) ==
    /\ bookings[i].google_calendar_event_id = Null
    /\ bookings[i].status \in {"confirmed", "pending"}
    /\ TextGreater(toISOString(bookings[i].lesson_date), datetime(now))

(* b.created_at > datetime('now', '-24 hours'): both are                   *)
(* 'YYYY-MM-DD HH:MM:SS', ordered as the instants are                      *)
CreatedLately(i) == bookings[i].created_at > now - 24 * SecondsPerHour

(* the columns of a selected row that the loop uses *)
SyncRow(i) ==
    [id |-> i, user_id |-> bookings[i].user_id,
     lesson_date |-> bookings[i].lesson_date, duration |-> bookings[i].duration]

RECURSIVE RowsOf(_, _)
(* the rows with id >= i among the selected ones, in rowid order *)
RowsOf(i, selected) ==
    IF i > Len(bookings) THEN << >>
    ELSE (IF i \in selected THEN <<SyncRow(i)>> ELSE << >>)
         \o RowsOf(i + 1, selected)

RECURSIVE OrderByLessonDate(_)
(* ORDER BY b.lesson_date ASC; rows of equal lesson_date stay in rowid     *)
(* order                                                                   *)
OrderByLessonDate(rows) ==
    IF rows = << >> THEN << >>
    ELSE LET first == CHOOSE k \in 1..Len(rows) :
                 \A j \in 1..Len(rows) :
                     \/ rows[k].lesson_date < rows[j].lesson_date
                     \/ rows[k].lesson_date = rows[j].lesson_date /\ k <= j
         IN  <<rows[first]>> \o
             OrderByLessonDate(SubSeq(rows, 1, first - 1) \o
                               SubSeq(rows, first + 1, Len(rows)))

(* performSync, run by setInterval every 15 minutes: await                 *)
(* isCalendarSyncEnabled(), and return if sync is off                      *)
performSync(w) ==
    /\ FreeWorker(w)
    /\ ops' = ops + 1
    /\ reqs' = IF google.calendar_sync_enabled
               THEN [reqs EXCEPT ![w] =
                       [Idle EXCEPT !.pc = "sync_select", !.call = "sync_create"]]
               ELSE reqs
    /\ UNCHANGED <<bookings, google, events, sync_log, last, besideSync>>

(* performSync: the SELECT of the unsynced bookings created in the last    *)
(* 24 hours (LIMIT 10); the loop starts on its rows                        *)
performSyncSelect(w) ==
    /\ reqs[w].pc = "sync_select"
    /\ reqs' = [reqs EXCEPT ![w] =
          NextRow([reqs[w] EXCEPT !.queue =
              RowsOf(1, {i \in BookingIds :
                            Unsynced(i) /\ CreatedLately(i)})])]
    /\ UNCHANGED <<bookings, google, events, sync_log, last, ops, besideSync>>

(* performSync after createBookingEvent returned an id: UPDATE bookings    *)
(* SET google_calendar_event_id = ? WHERE id = ?                           *)
performSynced(w) ==
    /\ reqs[w].pc = "gcal_done" /\ reqs[w].call = "sync_create"
    /\ bookings' = [bookings EXCEPT
          ![reqs[w].id].google_calendar_event_id = reqs[w].event]
    /\ reqs' = [reqs EXCEPT ![w].pc = "sync_log"]
    /\ UNCHANGED <<google, events, sync_log, last, ops, besideSync>>

(* INSERT INTO calendar_sync_log the sync_create success row; the loop     *)
(* goes on                                                                 *)
performSyncLogged(w) ==
    /\ reqs[w].pc = "sync_log"
    /\ sync_log' = Append(sync_log,
          SyncLogRow("sync_create", reqs[w].id, reqs[w].event, "success"))
    /\ reqs' = [reqs EXCEPT ![w] = NextRow(reqs[w])]
    /\ UNCHANGED <<bookings, google, events, last, ops, besideSync>>

(* The studio with calendar sync set up: the admin's Google credentials    *)
(* are stored and calendar_sync_enabled = 1; the seeded 14:00 lesson of    *)
(* 2025-11-10, set to pending, was pushed as event 1; the instructor's own *)
(* calendar holds event 2 from 15:00 to 16:00 that day.  The service may   *)
(* or may not                                                              *)
(* have been initialized since the server started.  It is exactly 24 h     *)
(* before that lesson, or one second later.                                *)
InitSync ==
    /\ now \in {ClockStart, ClockStart + 1}
    /\ bookings = <<[NewBooking(2, Nov10_14, 60) EXCEPT
                        !.google_calendar_event_id = 1]>>
    /\ payments = << >>
    /\ settings = DefaultSettings
    /\ reqs = [w \in Workers |-> Idle]
    /\ last = NoResponse
    /\ ops = 0
    /\ makeups = << >>
    /\ sessions = << >>
    /\ recurring = << >>
    /\ cycles = << >>
    /\ \E initialized \in BOOLEAN :
          google = [connected |-> TRUE, access_token |-> 0,
                    isInitialized |-> initialized,
                    calendar_sync_enabled |-> TRUE]
    /\ events = {[id |-> 1, status |-> "confirmed", start |-> Nov10_14,
                  end |-> addMinutes(Nov10_14, 60)],
                 [id |-> 2, status |-> "confirmed", start |-> Nov10_15,
                  end |-> addMinutes(Nov10_15, 60)]}
    /\ answer = NoAnswer
    /\ sync_log = << >>
    /\ notices = {}
    /\ phones = SeededPhones
    /\ twilio = TRUE

performSyncRun == \E w \in Workers : performSync(w)

(* the steps of worker w's booking request that the store answers, with    *)
(* calendar sync enabled                                                   *)
SyncedStep(w) ==
    \/ CreateStep(w)
    \/ CreateUserRead(w)
    \/ RescheduleStep(w)
    \/ RescheduleUserRead(w)
    \/ CancelStep(w)
    \/ ServiceStep(w)
    \/ CreateSynced(w)
    \/ CreateLogged(w)
    \/ RescheduleSynced(w)
    \/ CancelSynced(w)

(* the steps of worker w's incremental sweep that the store answers *)
performSyncStep(w) ==
    \/ performSyncSelect(w)
    \/ performSynced(w)
    \/ performSyncLogged(w)

(* the booking requests, the background sync and the steps of the Google   *)
(* Calendar service                                                        *)
NextSync ==
    \/ ops < MaxSyncOps /\ CreateRequest
    \/ ops < MaxSyncOps /\ RescheduleRequest
    \/ ops < MaxSyncOps /\ CancelRequest
    \/ ops < MaxSyncOps /\ performSyncRun
    \/ \E w \in Workers : SyncedStep(w)
    \/ \E w \in Workers : performSyncStep(w)
    \/ \E w \in Workers : GoogleAnswers(w)

SpecSync == InitSync /\ [][NextSync]_vars

(* one booking request at a time with its calendar call *)
NextPush ==
    \/ ops < MaxPushOps /\ CreateRequest
    \/ ops < MaxPushOps /\ RescheduleRequest
    \/ ops < MaxPushOps /\ CancelRequest
    \/ ops < MaxPushOps /\ CalendarAdminRequest
    \/ \E w \in Workers : handleAuthCallbackStore(w)
    \/ \E w \in Workers : SyncedStep(w)
    \/ \E w \in Workers : GoogleAnswers(w)

SpecPush == InitSync /\ [][NextPush]_vars

(* a step of worker w's handler or sweep that runs on the server itself    *)
ServerStep(w) ==
    \/ SyncedStep(w)
    \/ performSyncStep(w)

(* the event loop runs every continuation that is ready; when, and         *)
(* whether, Google answers a call is not the server's to decide: the       *)
(* awaited events.insert/update/delete, calendarList.list and              *)
(* refreshAccessToken carry no timeout                                     *)
SpecSyncFair == SpecSync /\ \A w \in Workers : WF_vars(ServerStep(w))

----------------------------------------------------------------------------
(* Lessons that start within another lesson's interval *)

(* 2025-11-10T14:30Z: half an hour into the 14:00 lesson *)
Nov10_1430 == Nov10_14 + 30 * SecondsPerMinute
OverlapTimes == {Nov10_14, Nov10_1430, Nov10_15}

OverlapCreateRequest ==
    \E w \in Workers, u \in Users, ld \in OverlapTimes, d \in Durations :
        CreateBegin(w, u, ld, NoDate, d)

OverlapRescheduleRequest ==
    \E w \in Workers, u \in Users, id \in 1..MaxBookings, ld \in OverlapTimes,
       nd \in {NoDate, Nov30_10} : ReschedulePolicy(w, u, id, ld, nd)

(* creations and reschedules around the held 14:00 lesson *)
NextOverlap ==
    \/ ops < MaxConflictOps /\ OverlapCreateRequest
    \/ ops < MaxConflictOps /\ OverlapRescheduleRequest
    \/ \E w \in Workers : CreateStep(w)
    \/ \E w \in Workers : RescheduleStep(w)

SpecOverlap == InitOneBooked /\ [][NextOverlap]_vars

----------------------------------------------------------------------------
(* The three client operations on bookings, without the admin and the      *)
(* payment signals                                                         *)

NextClient ==
    \/ Tick
    \/ ops < MaxClientOps /\ CreateRequest
    \/ ops < MaxClientOps /\ RescheduleRequest
    \/ ops < MaxClientOps /\ CancelRequest
    \/ ClientStep

SpecClient == InitOneBooked /\ [][NextClient]_vars

----------------------------------------------------------------------------
(* CalendarSyncService.performFullSync, the daily sweep, with the create   *)
(* handler, the incremental sweep, POST /calendar/sync/manual and the      *)
(* admin's calendar settings requests                                      *)

(* performFullSync, run by cron at 2:00: await isCalendarSyncEnabled(),    *)
(* and return if sync is off.  A run is over long before the next day's:   *)
(* one full sweep is in flight at a time.  A run that finds neither stored *)
(* credentials nor an initialized service leaves an error row per booking: *)
(* such runs are taken while the sync log has room.                        *)
performFullSync(w) ==
    /\ FreeWorker(w)
    /\ \A v \in Workers : reqs[v].call # "full_sync"
    /\ google.connected \/ google.isInitialized \/ Len(sync_log) < MaxSyncLog
    /\ reqs' = IF google.calendar_sync_enabled
               THEN [reqs EXCEPT ![w] =
                       [Idle EXCEPT !.pc = "full_clean", !.call = "full_sync"]]
               ELSE reqs
    /\ UNCHANGED <<bookings, google, events, sync_log, last, ops, besideSync>>

(* DELETE FROM calendar_sync_log WHERE sync_time < datetime('now',         *)
(* '-30 days'): every row of the log was written within the weeks the      *)
(* clock covers, none is deleted                                           *)
performFullSyncClean(w) ==
    /\ reqs[w].pc = "full_clean"
    /\ reqs' = [reqs EXCEPT ![w].pc = "full_select"]
    /\ UNCHANGED <<bookings, google, events, sync_log, last, ops, besideSync>>

(* the selection of the sweep without the bookings awaiting confirmation *)
performFullSyncSelect_ConfirmedOnly(w) ==
    /\ reqs[w].pc = "full_select"
    /\ reqs' = [reqs EXCEPT ![w] =
          NextRow([reqs[w] EXCEPT !.queue =
              OrderByLessonDate(RowsOf(1, {i \in BookingIds :
                  Unsynced(i) /\ bookings[i].status = "confirmed"}))])]
    /\ UNCHANGED <<bookings, google, events, sync_log, last, ops, besideSync>>

(* performFullSync: the SELECT of the unsynced bookings, whenever they     *)
(* were created, ORDER BY lesson_date ASC LIMIT 50; the loop starts on its *)
(* rows                                                                    *)
performFullSyncSelect(w) ==
    /\ reqs[w].pc = "full_select"
    /\ reqs' = [reqs EXCEPT ![w] =
          NextRow([reqs[w] EXCEPT !.queue =
              OrderByLessonDate(RowsOf(1, {i \in BookingIds :
                                               Unsynced(i)}))])]
    /\ UNCHANGED <<bookings, google, events, sync_log, last, ops, besideSync>>

(* performFullSync after createBookingEvent: if (googleEventId) UPDATE     *)
(* bookings SET google_calendar_event_id = ? WHERE id = ?; else INSERT     *)
(* INTO calendar_sync_log a full_sync error row                            *)
performFullSynced(w) ==
    /\ reqs[w].pc = "gcal_done" /\ reqs[w].call = "full_sync"
    /\ LET r == reqs[w]
       IN  IF r.synced
           THEN /\ bookings' = [bookings EXCEPT
                       ![r.id].google_calendar_event_id = r.event]
                /\ reqs' = [reqs EXCEPT ![w].pc = "full_log"]
                /\ UNCHANGED sync_log
           ELSE /\ UNCHANGED bookings
                /\ sync_log' = Append(sync_log,
                       SyncLogRow("full_sync", r.id, Null, "error"))
                /\ reqs' = [reqs EXCEPT ![w].pc = "full_delay"]
    /\ UNCHANGED <<google, events, last, ops, besideSync>>

(* INSERT INTO calendar_sync_log the full_sync success row *)
performFullSyncLogged(w) ==
    /\ reqs[w].pc = "full_log"
    /\ sync_log' = Append(sync_log,
          SyncLogRow("full_sync", reqs[w].id, reqs[w].event, "success"))
    /\ reqs' = [reqs EXCEPT ![w].pc = "full_delay"]
    /\ UNCHANGED <<bookings, google, events, last, ops, besideSync>>

(* await new Promise(resolve => setTimeout(resolve, 500)); the loop goes   *)
(* on                                                                      *)
performFullSyncDelay(w) ==
    /\ reqs[w].pc = "full_delay"
    /\ reqs' = [reqs EXCEPT ![w] = NextRow(reqs[w])]
    /\ UNCHANGED <<bookings, google, events, sync_log, last, ops, besideSync>>

(* POST /calendar/sync/manual (admin): await                               *)
(* googleCalendarService.initialize(), which the route calls whether or    *)
(* not the service is initialized and whether or not calendar sync is      *)
(* enabled; the SELECT of the stored credentials finds a row and           *)
(* calendarList.list is awaited, or initialize returns false               *)
ManualSync(w) ==
    /\ FreeWorker(w)
    /\ ops' = ops + 1
    /\ LET r == [Idle EXCEPT !.call = "manual_init", !.user = 1]
       IN  reqs' = [reqs EXCEPT ![w] =
              IF google.connected THEN [r EXCEPT !.pc = "gcal_list"]
              ELSE AfterInitialize(r)]
    /\ UNCHANGED <<bookings, google, events, sync_log, last, besideSync>>

(* for (const booking of bookingsToSync): the manual sync r goes on with   *)
(* the next row of its SELECT and enters createBookingEvent, or answers    *)
(* that it completed                                                       *)
ManualSyncNext(w, r) ==
    IF r.queue = << >> THEN Reply(w, "manual_sync", 0, "completed")
    ELSE /\ reqs' = [reqs EXCEPT ![w] = NextRow(r)]
         /\ UNCHANGED last

(* the SELECT of every unsynced future booking, with no ORDER BY and no    *)
(* LIMIT; the loop starts on its rows                                      *)
ManualSyncSelect(w) ==
    /\ reqs[w].pc = "manual_select"
    /\ ManualSyncNext(w, [reqs[w] EXCEPT
          !.call = "manual_sync",
          !.queue = RowsOf(1, {i \in BookingIds : Unsynced(i)})])
    /\ UNCHANGED <<bookings, google, events, sync_log, ops, besideSync>>

(* the manual sync after createBookingEvent: if (googleEventId) UPDATE     *)
(* bookings SET google_calendar_event_id = ? WHERE id = ?; else INSERT     *)
(* INTO calendar_sync_log a create error row, and the loop goes on         *)
ManualSynced(w) ==
    /\ reqs[w].pc = "gcal_done" /\ reqs[w].call = "manual_sync"
    /\ LET r == reqs[w]
       IN  IF r.synced
           THEN /\ bookings' = [bookings EXCEPT
                       ![r.id].google_calendar_event_id = r.event]
                /\ reqs' = [reqs EXCEPT ![w].pc = "manual_log"]
                /\ UNCHANGED <<sync_log, last>>
           ELSE /\ UNCHANGED bookings
                /\ sync_log' = Append(sync_log,
                       SyncLogRow("create", r.id, Null, "error"))
                /\ ManualSyncNext(w, r)
    /\ UNCHANGED <<google, events, ops, besideSync>>

(* INSERT INTO calendar_sync_log the create success row; the loop goes on  *)
(* without a delay                                                         *)
ManualSyncLogged(w) ==
    /\ reqs[w].pc = "manual_log"
    /\ sync_log' = Append(sync_log,
          SyncLogRow("create", reqs[w].id, reqs[w].event, "success"))
    /\ ManualSyncNext(w, reqs[w])
    /\ UNCHANGED <<bookings, google, events, ops, besideSync>>

(* the calls that Google refuses or fails are finitely many: each is       *)
(* taken while the sync log has room for the row it may leave              *)
GoogleFails(w) ==
    /\ Len(sync_log) < MaxSyncLog
    /\ \/ \E api \in GoogleApi \ {"ok"} : initializeList(w, api)
       \/ \E api \in GoogleApi \ {"ok"} : CalendarCall(w, api)
       \/ refreshAccessToken(w, FALSE)

GoogleAccepts(w) ==
    \/ initializeList(w, "ok")
    \/ CalendarCall(w, "ok")
    \/ refreshAccessToken(w, TRUE)

performFullSyncRun == \E w \in Workers : performFullSync(w)

(* a continuation of worker w's handler or sweep *)
SweepStep(w) ==
    \/ CreateStep(w)
    \/ CreateUserRead(w)
    \/ ServiceStep(w)
    \/ CreateSynced(w)
    \/ CreateLogged(w)
    \/ performSyncStep(w)
    \/ performFullSyncClean(w)
    \/ performFullSyncSelect(w)
    \/ performFullSynced(w)
    \/ performFullSyncLogged(w)
    \/ performFullSyncDelay(w)
    \/ ManualSyncSelect(w)
    \/ ManualSynced(w)
    \/ ManualSyncLogged(w)
    \/ handleAuthCallbackStore(w)

ManualSyncRequest == \E w \in Workers : ManualSync(w)

(* POST /bookings for a free hour of 1 December *)
SweepCreateRequest ==
    \E w \in Workers, u \in Users : CreateBegin(w, u, Dec01_10, NoDate, 60)

NextSweep ==
    \/ ops < MaxSweepOps /\ SweepCreateRequest
    \/ ops < MaxSweepOps /\ performSyncRun
    \/ ops < MaxSweepOps /\ ManualSyncRequest
    \/ ops < MaxSweepOps /\ CalendarAdminRequest
    \/ performFullSyncRun
    \/ \E w \in Workers : GoogleFails(w)
    \/ \E w \in Workers : GoogleAccepts(w)
    \/ \E w \in Workers : SweepStep(w)

(* 2025-11-09T10:00Z, four hours before the clock starts *)
Nov09_10 == 8 * SecondsPerDay + 10 * SecondsPerHour

(* The studio of InitSync just after a server start: the service is not   *)
(* initialized yet.  User 1 may hold a second pending lesson whose push by *)
(* the create handler failed, so that it has no event: a lesson on         *)
(* 2025-12-01 booked on 3 November or an hour ago, or a lesson that began  *)
(* at 10:00 today and was never confirmed.                                 *)
InitSweep ==
    /\ now = ClockStart
    /\ bookings \in
          {<<[NewBooking(2, Nov10_14, 60) EXCEPT
                 !.google_calendar_event_id = 1]>>} \cup
          {<<[NewBooking(2, Nov10_14, 60) EXCEPT
                 !.google_calendar_event_id = 1], second>> :
             second \in {NewBooking(1, Dec01_10, 60),
                         InsertedBooking(1, Dec01_10, 60, CreatePrice(60),
                                         ClockStart - SecondsPerHour),
                         NewBooking(1, Nov09_10, 60)}}
    /\ payments = << >>
    /\ settings = DefaultSettings
    /\ reqs = [w \in Workers |-> Idle]
    /\ last = NoResponse
    /\ ops = 0
    /\ makeups = << >>
    /\ sessions = << >>
    /\ recurring = << >>
    /\ cycles = << >>
    /\ google = [connected |-> TRUE, access_token |-> 0,
                 isInitialized |-> FALSE, calendar_sync_enabled |-> TRUE]
    /\ events = {[id |-> 1, status |-> "confirmed", start |-> Nov10_14,
                  end |-> addMinutes(Nov10_14, 60)],
                 [id |-> 2, status |-> "confirmed", start |-> Nov10_15,
                  end |-> addMinutes(Nov10_15, 60)]}
    /\ answer = NoAnswer
    /\ sync_log = << >>
    /\ notices = {}
    /\ phones = SeededPhones
    /\ twilio = TRUE

SpecSweep == InitSweep /\ [][NextSweep]_vars

(* the timers fire again and again (setInterval, cron.schedule), the event *)
(* loop runs every continuation that is ready, and the calendar answers    *)
(* the calls it accepts                                                    *)
SpecSweepFair ==
    /\ SpecSweep
    /\ WF_vars(performFullSyncRun)
    /\ \A w \in Workers : WF_vars(SweepStep(w))
    /\ \A w \in Workers : WF_vars(GoogleAccepts(w))

----------------------------------------------------------------------------
(* PUT /recurring/:id *)

(* users.role as seedDatabase inserts it *)
role(u) == IF u = 1 THEN "admin" ELSE "client"

(* SELECT * FROM recurring_bookings WHERE id = ?: no row 404; a row of     *)
(* another user asked by someone who is not the admin 403; else the UPDATE *)
(* is awaited.  complete tells whether the body carries day_of_week, time, *)
(* frequency and status, none of which the handler validates               *)
RecurringUpdate(w, u, id, complete, frequency) ==
    /\ FreeWorker(w)
    /\ ops' = ops + 1
    /\ UNCHANGED <<now, bookings, payments, settings, aside>>
    /\ IF id \notin 1..Len(recurring)
       THEN Reply(w, "recurring_update", id, "not_found")
       ELSE IF recurring[id].user_id # u /\ role(u) # "admin"
       THEN Reply(w, "recurring_update", id, "unauthorized")
       ELSE /\ reqs' = [reqs EXCEPT ![w] =
                   [Idle EXCEPT !.pc = "recurring_update", !.user = u,
                                !.id = id, !.frequency = frequency,
                                !.complete = complete]]
            /\ UNCHANGED last

(* UPDATE recurring_bookings SET day_of_week = ?, time = ?, frequency = ?, *)
(* status = ? WHERE id = ?, and the answer: the four columns are NOT NULL, *)
(* so with one of them absent from the body the UPDATE throws, the row     *)
(* stays as it was and the catch block answers 500                         *)
RecurringUpdateWrite(w) ==
    /\ reqs[w].pc = "recurring_update"
    /\ IF reqs[w].complete
       THEN /\ recurring' = [recurring EXCEPT
                               ![reqs[w].id].frequency = reqs[w].frequency]
            /\ Reply(w, "recurring_update", reqs[w].id, "updated")
       ELSE /\ recurring' = recurring
            /\ Reply(w, "recurring_update", reqs[w].id, "failed")
    /\ UNCHANGED <<now, bookings, payments, settings, ops>>
    /\ UNCHANGED <<makeups, sessions, cycles, google, events, answer,
                   sync_log, notices,
                   phones, twilio>>

RecurringUpdateRequest ==
    \E w \in Workers, u \in Users, id \in 1..MaxRecurring,
       complete \in BOOLEAN, f \in Frequencies :
        RecurringUpdate(w, u, id, complete, f)

(* recurring bookings created and updated *)
NextRecurring ==
    \/ NextBilling
    \/ ops < MaxBillingOps /\ RecurringUpdateRequest
    \/ \E w \in Workers : RecurringUpdateWrite(w)

SpecRecurring == Init /\ [][NextRecurring]_vars

----------------------------------------------------------------------------
(* SchedulerService.checkOverduePayments, run by cron every day at 11:00,  *)
(* POST /recurring/billing/:id/paid and PUT /users/profile.  phones is the *)
(* column users.phone, twilio tells whether the constructor of             *)
(* TwilioService found its credentials, and notices holds the billing      *)
(* cycles whose overdue message Twilio accepted.                           *)

(* new Date().toISOString().split('T')[0] as the number YYYYMMDD *)
ISODate(t) ==
    IF UTCDate(t) < 30 THEN 20251101 + UTCDate(t)
    ELSE 20251201 + (UTCDate(t) - 30)

(* u.phone IS NOT NULL AND u.phone != '' *)
HasPhone(u) == phones[u] # NoPhone /\ phones[u] # ""

(* phone of the body of PUT /users/profile: absent, empty or a number *)
ProfilePhones == {NoPhone, "", "+1987654321"}

(* PUT /users/profile: 400 without first_name or last_name; else UPDATE    *)
(* users SET first_name = ?, last_name = ?, phone = ? WHERE id = ?         *)
UpdateProfile(w, u, named, phone) ==
    /\ FreeWorker(w)
    /\ ops' = ops + 1
    /\ IF ~named
       THEN /\ Reply(w, "profile", u, "names_required")
            /\ UNCHANGED phones
       ELSE /\ phones' = [phones EXCEPT ![u] = phone]
            /\ reqs' = [reqs EXCEPT ![w] =
                  [Idle EXCEPT !.pc = "profile_read", !.user = u]]
            /\ UNCHANGED last
    /\ UNCHANGED <<now, bookings, payments, settings>>
    /\ UNCHANGED <<makeups, sessions, recurring, cycles, google, events,
                   answer, sync_log, notices, twilio>>

(* its SELECT of the updated user, and the answer *)
UpdateProfileRead(w) ==
    /\ reqs[w].pc = "profile_read"
    /\ Reply(w, "profile", reqs[w].user, "updated")
    /\ UNCHANGED <<now, bookings, payments, settings, ops>>
    /\ UNCHANGED aside

(* 11:00 on 14, 15 and 16 November 2025 *)
OverdueClock ==
    {d * SecondsPerDay + 11 * SecondsPerHour : d \in {13, 14, 15}}

NextMorning ==
    /\ now + SecondsPerDay \in OverdueClock
    /\ now' = now + SecondsPerDay
    /\ UNCHANGED <<bookings, payments, settings, reqs, last, ops, aside>>

(* the UPDATE that also takes the cycles due today *)
checkOverduePayments_DueTodayIncluded(w) ==
    /\ FreeWorker(w)
    /\ LET today == ISODate(now)
       IN  /\ cycles' = [c \in 1..Len(cycles) |->
                 IF cycles[c].due_date <= today /\ cycles[c].status = "pending"
                 THEN [cycles[c] EXCEPT !.status = "overdue"]
                 ELSE cycles[c]]
           /\ reqs' = [reqs EXCEPT ![w] =
                 [Idle EXCEPT !.pc = "overdue_notify", !.cursor = today]]
    /\ UNCHANGED <<now, bookings, payments, settings, last, ops>>
    /\ UNCHANGED <<makeups, sessions, recurring, google, events, answer,
                   sync_log, notices,
                   phones, twilio>>

(* checkOverduePayments up to its SELECT: today, and UPDATE billing_cycles *)
(* SET status = 'overdue' WHERE due_date < ? AND status = 'pending'; the   *)
(* request's cursor keeps today                                            *)
checkOverduePayments(w) ==
    /\ FreeWorker(w)
    /\ LET today == ISODate(now)
       IN  /\ cycles' = [c \in 1..Len(cycles) |->
                 IF cycles[c].due_date < today /\ cycles[c].status = "pending"
                 THEN [cycles[c] EXCEPT !.status = "overdue"]
                 ELSE cycles[c]]
           /\ reqs' = [reqs EXCEPT ![w] =
                 [Idle EXCEPT !.pc = "overdue_notify", !.cursor = today]]
    /\ UNCHANGED <<now, bookings, payments, settings, last, ops>>
    /\ UNCHANGED <<makeups, sessions, recurring, google, events, answer,
                   sync_log, notices,
                   phones, twilio>>

(* the SELECT of the cycles WHERE bc.status = 'overdue' AND bc.due_date =  *)
(* today of clients with a phone; for (const cycle of overdueCycles)       *)
(* awaits sendSMS for each of them.  Without a Twilio client sendSMS       *)
(* returns false before it awaits anything, so the loop runs to its end;   *)
(* with one it awaits messages.create for the first row.  No row ends the  *)
(* sweep.                                                                  *)
overdueCycles(w) ==
    /\ reqs[w].pc = "overdue_notify"
    /\ LET newlyOverdue(c) ==
               /\ cycles[c].status = "overdue"
               /\ cycles[c].due_date = reqs[w].cursor
               /\ HasPhone(cycles[c].user_id)
           rows == SelectSeq([c \in 1..Len(cycles) |-> c], newlyOverdue)
       IN  reqs' = [reqs EXCEPT ![w] =
              IF rows = << >> \/ ~twilio THEN Idle
              ELSE [reqs[w] EXCEPT !.pc = "overdue_send", !.queue = rows]]
    /\ UNCHANGED <<now, bookings, payments, settings, last, ops>>
    /\ UNCHANGED aside

(* sendSMS up to its logNotification: the awaited client.messages.create   *)
(* of the cycle at hand has answered (accepted) or has thrown into the     *)
(* catch of sendSMS; the request's synced keeps which                      *)
sendSMS(w, accepted) ==
    /\ reqs[w].pc = "overdue_send"
    /\ notices' = IF accepted THEN notices \cup {Head(reqs[w].queue)}
                  ELSE notices
    /\ reqs' = [reqs EXCEPT ![w] =
          [@ EXCEPT !.pc = "overdue_log", !.synced = accepted]]
    /\ UNCHANGED <<now, bookings, payments, settings, last, ops>>
    /\ UNCHANGED <<makeups, sessions, recurring, cycles, google, events,
                   answer, sync_log, phones, twilio>>

(* logNotification: the awaited INSERT INTO notifications, a table that   *)
(* is not part of the modelled store, with its error swallowed by the      *)
(* catch block; sendSMS returns and the loop goes on with the next row of  *)
(* its SELECT                                                              *)
logNotification(w) ==
    /\ reqs[w].pc = "overdue_log"
    /\ reqs' = [reqs EXCEPT ![w] =
          IF Tail(reqs[w].queue) = << >> THEN Idle
          ELSE [reqs[w] EXCEPT !.pc = "overdue_send", !.queue = Tail(@),
                               !.synced = FALSE]]
    /\ UNCHANGED <<now, bookings, payments, settings, last, ops>>
    /\ UNCHANGED aside

(* POST /recurring/billing/:id/paid: UPDATE billing_cycles SET status =    *)
(* 'paid', ... WHERE id = ?                                                *)
MarkPaid(id) ==
    /\ ops' = ops + 1
    /\ cycles' = [c \in 1..Len(cycles) |->
          IF c = id THEN [cycles[c] EXCEPT !.status = "paid"] ELSE cycles[c]]
    /\ last' = Response("paid", id, "updated")
    /\ UNCHANGED <<now, bookings, payments, settings, reqs>>
    /\ UNCHANGED <<makeups, sessions, recurring, google, events, answer,
                   sync_log, notices,
                   phones, twilio>>

(* a row of generateBillingCycles for the month of a weekly 60-minute      *)
(* recurring booking                                                       *)
BillingCycle(u, id, month, status) ==
    [user_id |-> u, recurring_booking_id |-> id,
     cycle_month |-> month, cycle_year |-> 2025,
     total_amount |-> DefaultSettings.lesson_60_price * lessonsPerMonth("weekly"),
     lessons_count |-> lessonsPerMonth("weekly"),
     billing_date |-> NewDate(2025, month - 1, 1),
     due_date |-> NewDate(2025, month - 1, 15),
     status |-> status]

(* the cycles of October, paid, and of November, pending, of both clients *)
BilledCycles ==
    <<BillingCycle(1, 1, 10, "paid"), BillingCycle(1, 1, 11, "pending"),
      BillingCycle(2, 2, 10, "paid"), BillingCycle(2, 2, 11, "pending")>>

(* 14 November 2025, 11:00, before the day's sweep.  Each client has a     *)
(* weekly recurring booking from 1 October to the academic year's end, set *)
(* to 30 November; the October cycles have been paid, the November cycles  *)
(* are pending.                                                            *)
InitOverdue ==
    /\ now = 13 * SecondsPerDay + 11 * SecondsPerHour
    /\ bookings = <<seedDatabase(2 * SecondsPerDay + 9 * SecondsPerHour)>>
    /\ payments = << >>
    /\ settings = [DefaultSettings EXCEPT !.academic_year_end = 20251130]
    /\ reqs = [w \in Workers |-> Idle]
    /\ last = NoResponse
    /\ ops = 0
    /\ makeups = << >>
    /\ sessions = << >>
    /\ recurring = [u \in Users |->
          [user_id |-> u, duration |-> 60,
           price |-> DefaultSettings.lesson_60_price, frequency |-> "weekly",
           start_date |-> 20251001, end_date |-> 20251130]]
    /\ cycles = BilledCycles
    /\ google = NoGoogle
    /\ events = {}
    /\ answer = NoAnswer
    /\ sync_log = << >>
    /\ notices = {}
    /\ phones = SeededPhones
    /\ twilio \in BOOLEAN

checkOverdueRun == \E w \in Workers : checkOverduePayments(w)

MarkPaidRequest == \E id \in 1..Len(cycles) : MarkPaid(id)

UpdateProfileRequest ==
    \E w \in Workers, u \in Users, named \in BOOLEAN, phone \in ProfilePhones :
        UpdateProfile(w, u, named, phone)

NextOverdue ==
    \/ NextMorning
    \/ checkOverdueRun
    \/ \E w \in Workers : overdueCycles(w)
    \/ \E w \in Workers, accepted \in BOOLEAN : sendSMS(w, accepted)
    \/ \E w \in Workers : logNotification(w)
    \/ ops < MaxOverdueOps /\ MarkPaidRequest
    \/ ops < MaxOverdueOps /\ UpdateProfileRequest
    \/ \E w \in Workers : UpdateProfileRead(w)

SpecOverdue == InitOverdue /\ [][NextOverdue]_vars

(* the days go by, cron starts the sweep every day, and the event loop     *)
(* runs the sweep's continuation                                           *)
SpecOverdueFair ==
    /\ SpecOverdue
    /\ WF_vars(NextMorning)
    /\ WF_vars(checkOverdueRun)
    /\ \A w \in Workers : WF_vars(overdueCycles(w))
    /\ \A w \in Workers : WF_vars(\E accepted \in BOOLEAN : sendSMS(w, accepted))
    /\ \A w \in Workers : WF_vars(logNotification(w))
    /\ \A w \in Workers : WF_vars(UpdateProfileRead(w))

----------------------------------------------------------------------------
(* Vocabulary of the properties, stated on the store alone *)

NonTerminal(b) == b.status \in {"pending", "confirmed"}

(* calendar month of an instant, as year * 12 + month *)
CalendarMonth(t) == IF t \div SecondsPerDay < 30 THEN 2025 * 12 + 11
                    ELSE 2025 * 12 + 12

(* the day of an instant lies in the Thanksgiving break, Nov 24 .. Nov 29 *)
InBlackout(t) == t \div SecondsPerDay \in 23..28

(* non-terminal bookings that hold start time t in a store bs *)
Holders(bs, t) ==
    {i \in 1..Len(bs) : bs[i].lesson_date = t /\ NonTerminal(bs[i])}

(* worker w finishes a step that takes it from pc a to pc b *)
Moves(w, a, b) == reqs[w].pc = a /\ reqs'[w].pc = b

----------------------------------------------------------------------------
(* C1: of the create and reschedule requests that target one start time,   *)
(* under every interleaving of their conflict reads and their writes, at   *)
(* most one ends up holding it with a non-terminal booking: when a         *)
(* request's INSERT or UPDATE lands, no other pending or confirmed booking *)
(* holds the start time it wrote.                                          *)
C1_WriteHoldsSlotAlone ==
    [][\A w \in Workers :
          (\/ Moves(w, "create_insert", "create_sync")
           \/ Moves(w, "resched_write", "resched_sync"))
              => Cardinality(Holders(bookings', reqs[w].lesson_date)) <= 1]_vars

(* C2: in every reachable state at most one pending or confirmed booking   *)
(* exists for any start timestamp.                                         *)
C2_OneNonTerminalPerStart ==
    \A i \in BookingIds, j \in BookingIds :
        (i # j /\ NonTerminal(bookings[i]) /\ NonTerminal(bookings[j]))
            => bookings[i].lesson_date # bookings[j].lesson_date

LateFeeReason == "Late cancellation - automatic charge applied"

LateFee(id, amount) ==
    [booking_id |-> id, amount |-> amount,
     payment_method |-> "automatic_charge", status |-> "pending",
     payment_reference |-> "late_cancellation_fee", intent |-> FALSE]

(* seconds of the configured cancellation window *)
WindowSeconds == settings.cancellation_policy_hours * SecondsPerHour

(* C3: a client cancellation asked when the time left until the lesson is  *)
(* at least cancellation_policy_hours, the exact boundary included, takes  *)
(* the free path and ends with the booking cancelled and no payment        *)
(* written; one asked with any less time left takes the automatic-charge   *)
(* path, which writes a payment.                                           *)
C3_CancellationBoundary ==
    [][\A w \in Workers :
          /\ Moves(w, "cancel_policy", "cancel_free")
                => bookings[reqs[w].id].lesson_date - now >= WindowSeconds
          /\ Moves(w, "cancel_policy", "cancel_price")
                => bookings[reqs[w].id].lesson_date - now < WindowSeconds
          /\ Moves(w, "cancel_free", "cancel_write")
                => payments' = payments
          /\ Moves(w, "cancel_write", "cancel_sync")
                => /\ payments' = payments
                   /\ bookings'[reqs[w].id].status = "cancelled"
          /\ (reqs[w].pc = "cancel_sync" /\ reqs'[w].pc = "idle")
                => /\ payments' = payments
                   /\ bookings' = bookings
                   /\ last' = Response("cancel", reqs[w].id, "cancelled")
          /\ Moves(w, "cancel_price", "cancel_charge")
                => payments' = payments
          /\ Moves(w, "cancel_charge", "cancel_charged")
                => Len(payments') = Len(payments) + 1]_vars

(* C3 witness: a free cancellation answered exactly 24 h before the lesson *)
C3_Witness ==
    /\ last.op = "cancel" /\ last.result = "cancelled"
    /\ bookings[last.id].lesson_date - now = WindowSeconds
    /\ bookings[last.id].status = "cancelled"
    /\ payments = << >>

(* C4: a cancellation denied by the window policy still ends with the      *)
(* booking cancelled, with exactly one new payment for the booking's full  *)
(* price tagged late_cancellation_fee, and with a cancellation reason that *)
(* notes the fee.                                                          *)
C4_LateCancellationCharged ==
    [][\A w \in Workers :
          LET id == reqs[w].id
          IN  /\ Moves(w, "cancel_price", "cancel_charge")
                    => /\ payments' = payments
                       /\ bookings' = bookings
              /\ Moves(w, "cancel_charge", "cancel_charged")
                    => /\ payments' = Append(payments,
                                             LateFee(id, bookings[id].price))
                       /\ bookings' = bookings
              /\ Moves(w, "cancel_charged", "idle")
                    => /\ bookings'[id].status = "cancelled"
                       /\ bookings'[id].cancellation_reason = LateFeeReason
                       /\ bookings'[id].price = bookings[id].price
                       /\ payments' = payments
                       /\ last' = Response("cancel", id, "charged")]_vars

(* C4 witness: a pending booking cancelled inside the window and charged *)
C4_Witness ==
    /\ last.op = "cancel" /\ last.result = "charged"
    /\ bookings[last.id].status = "cancelled"
    /\ bookings[last.id].cancellation_reason = LateFeeReason
    /\ bookings[last.id].lesson_date - now < WindowSeconds
    /\ payments = <<LateFee(last.id, bookings[last.id].price)>>

(* bookings of user u in calendar month m that carry a reschedule *)
RescheduledInMonth(bs, u, m) ==
    {i \in 1..Len(bs) : /\ bs[i].user_id = u
                        /\ bs[i].reschedule_count > 0
                        /\ CalendarMonth(bs[i].lesson_date) = m}

(* C5: a reschedule whose target date is not in the calendar month and     *)
(* year of the booking's current date is rejected and leaves the booking   *)
(* unchanged, whatever quota the client has left: no request with such a   *)
(* target reaches the UPDATE, no step moves a booking to another month,    *)
(* and the same-month rejection writes nothing.                            *)
C5_CrossMonthRejected ==
    [][/\ \A w \in Workers :
            /\ reqs'[w].pc = "resched_write"
                  => CalendarMonth(reqs'[w].lesson_date)
                       = CalendarMonth(bookings'[reqs'[w].id].lesson_date)
            /\ (Moves(w, "resched_handler", "idle")
                   /\ last'.result = "cross_month") => bookings' = bookings
       /\ \A i \in 1..Len(bookings) :
            CalendarMonth(bookings'[i].lesson_date)
              = CalendarMonth(bookings[i].lesson_date)]_vars

(* C5 witness: a cross-month reschedule was refused while its owner had    *)
(* not used any reschedule                                                 *)
C5_Witness ==
    /\ last.op = "reschedule" /\ last.result = "cross_month"
    /\ \A i \in BookingIds : bookings[i].reschedule_count = 0

(* price configured in settings for a lesson duration *)
ConfiguredPrice(duration) ==
    IF duration = 45 THEN settings.lesson_45_price ELSE settings.lesson_60_price

(* C6: a successful booking creation produces a booking in status pending  *)
(* whose price is the price configured in settings for its duration.       *)
C6_CreatedAtConfiguredPrice ==
    [][\A w \in Workers :
          Moves(w, "create_insert", "create_sync") =>
              LET b == bookings'[Len(bookings')]
              IN  /\ b.status = "pending"
                  /\ b.price = ConfiguredPrice(b.duration)]_vars

(* C7: every create or reschedule whose target lesson date lies in an      *)
(* active blackout range is rejected and writes nothing, so no booking     *)
(* ever stands on a blackout day.                                          *)
C7_NoBookingInBlackout ==
    \A i \in BookingIds : ~InBlackout(bookings[i].lesson_date)

(* C8: a reschedule is allowed only if its new date is in the booking's    *)
(* calendar month and year and the client has fewer than                   *)
(* max_reschedules_per_month rescheduled bookings in that month; failing   *)
(* either it is blocked entirely.  A request passes the policy's count     *)
(* only with both conditions true, for the maximum it has read; the        *)
(* handler and the UPDATE are reached only through the policy, and a       *)
(* booking changes only by such an UPDATE, within its month.               *)
C8_RescheduleGate ==
    [][/\ \A w \in Workers :
            /\ Moves(w, "resched_count", "resched_blackout") =>
                  LET r == reqs[w]
                      m == CalendarMonth(bookings[r.id].lesson_date)
                  IN  /\ r.new_date # NoDate
                      /\ CalendarMonth(r.new_date) = m
                      /\ Cardinality(RescheduledInMonth(bookings, r.user, m))
                            < r.limit
                      /\ r.limit = settings.max_reschedules_per_month
            /\ Moves(w, "idle", "resched_limit") =>
                  CalendarMonth(reqs'[w].new_date)
                     = CalendarMonth(bookings[reqs'[w].id].lesson_date)
            /\ (reqs'[w].pc = "resched_limit" /\ reqs[w].pc # "resched_limit")
                  => reqs[w].pc = "idle"
            /\ (reqs'[w].pc = "resched_count" /\ reqs[w].pc # "resched_count")
                  => reqs[w].pc = "resched_limit"
            /\ (reqs'[w].pc = "resched_blackout"
                   /\ reqs[w].pc # "resched_blackout")
                  => reqs[w].pc = "resched_count"
            /\ (reqs'[w].pc = "resched_handler" /\ reqs[w].pc # "resched_handler")
                  => reqs[w].pc = "resched_blackout"
            /\ (reqs'[w].pc = "resched_conflict"
                   /\ reqs[w].pc # "resched_conflict")
                  => reqs[w].pc = "resched_handler"
            /\ (reqs'[w].pc = "resched_write" /\ reqs[w].pc # "resched_write")
                  => reqs[w].pc = "resched_conflict"
       /\ \A i \in 1..Len(bookings) :
            bookings'[i] # bookings[i] =>
               /\ \E w \in Workers : /\ Moves(w, "resched_write", "resched_sync")
                                     /\ reqs[w].id = i
                                     /\ reqs[w].user = bookings[i].user_id
               /\ CalendarMonth(bookings'[i].lesson_date)
                     = CalendarMonth(bookings[i].lesson_date)]_vars

(* C8 witness: a reschedule refused because the client already has two     *)
(* rescheduled bookings in the month                                       *)
C8_Witness ==
    /\ last.op = "reschedule" /\ last.result = "quota"
    /\ Cardinality(RescheduledInMonth(bookings, bookings[last.id].user_id,
                       CalendarMonth(bookings[last.id].lesson_date)))
          >= settings.max_reschedules_per_month

RECURSIVE SumReschedules(_, _, _, _)
(* successful reschedules of user u in month m: each UPDATE adds 1 to the  *)
(* reschedule_count of a booking, which stays in its month                 *)
SumReschedules(bs, u, m, n) ==
    IF n = 0 THEN 0
    ELSE SumReschedules(bs, u, m, n - 1)
           + (IF bs[n].user_id = u /\ CalendarMonth(bs[n].lesson_date) = m
              THEN bs[n].reschedule_count ELSE 0)

(* C9: after any sequence of reschedule requests, the successful           *)
(* reschedules of one user in one calendar month never exceed the          *)
(* documented maximum of 2.                                                *)
C9_AtMostTwoReschedulesPerMonth ==
    \A u \in Users, i \in BookingIds :
        SumReschedules(bookings, u, CalendarMonth(bookings[i].lesson_date),
                       Len(bookings)) <= 2

(* C10: the documented reschedule request, body {lesson_date, notes}, with *)
(* a new lesson_date in the booking's month, outside every blackout range, *)
(* free of conflicts, and with quota left, is not refused by the policy    *)
(* middleware: it goes on to the handler that moves the booking.           *)
C10_DocumentedRescheduleAccepted ==
    [][\A w \in Workers, u \in Users, id \in BookingIds, ld \in LessonTimes :
          ( /\ ReschedulePolicy(w, u, id, ld, NoDate)
            /\ bookings[id].user_id = u
            /\ CalendarMonth(ld) = CalendarMonth(bookings[id].lesson_date)
            /\ ~InBlackout(ld)
            /\ Holders(bookings, ld) = {}
            /\ RescheduledInMonth(bookings, u, CalendarMonth(ld)) = {} )
          => reqs'[w].pc = "resched_limit"]_vars

----------------------------------------------------------------------------
Terminal(b) == b.status \in {"completed", "cancelled"}

(* C15: once a booking is completed or cancelled, no operation gives it    *)
(* another status or another lesson date.                                  *)
C15_TerminalIsFinal ==
    [][\A i \in 1..Len(bookings) :
          Terminal(bookings[i]) =>
              /\ bookings'[i].status = bookings[i].status
              /\ bookings'[i].lesson_date = bookings[i].lesson_date]_vars

(* seconds of the configured minimum advance notice *)
AdvanceSeconds == settings.booking_advance_hours * SecondsPerHour

(* C16: a booking creation passes the handler's checks only if its start   *)
(* time is in the future and at least booking_advance_hours (24) ahead of  *)
(* the time of the request.                                                *)
C16_AdvanceNotice ==
    [][\A w \in Workers :
          Moves(w, "idle", "create_conflict") =>
              /\ reqs'[w].lesson_date > now
              /\ reqs'[w].lesson_date - now >= AdvanceSeconds]_vars

(* C17: no booking is written for a duration that is not one of the        *)
(* allowed lesson durations, 45 and 60 minutes.                            *)
C17_OnlyAllowedDurations ==
    \A i \in BookingIds : bookings[i].duration \in Durations

(* C18: a create or reschedule that is answered with a conflict writes     *)
(* nothing: the bookings, with every lesson_date, reschedule_count,        *)
(* original_date and status, and the payments are as before the request.   *)
C18_ConflictWritesNothing ==
    [][(last' # last /\ last'.op \in {"create", "reschedule"}
           /\ last'.result = "conflict")
          => (bookings' = bookings /\ payments' = payments)]_vars

(* C18 witness: a reschedule onto the slot held by another pending booking *)
(* was refused and the store holds both bookings as they were created      *)
C18_Witness ==
    /\ last.op = "reschedule" /\ last.result = "conflict"
    /\ Len(bookings) = 2
    /\ \A i \in BookingIds : /\ bookings[i].reschedule_count = 0
                             /\ bookings[i].original_date = Null
                             /\ bookings[i].status = "pending"
    /\ bookings[1].lesson_date # bookings[2].lesson_date

----------------------------------------------------------------------------
(* pending make-up requests of user u in a table ms *)
PendingOf(ms, u) ==
    {i \in 1..Len(ms) : ms[i].user_id = u /\ ms[i].status = "pending"}

(* what the two counts of a make-up request do on worker w: each reads the *)
(* configured limit, lets the request through only below it, and lets it   *)
(* through whenever the client is below it and the booking is eligible     *)
MakeupCounts(w) ==
    /\ (reqs'[w].pc \in {"makeup_count", "makeup_pending"}
           /\ reqs'[w] # reqs[w])
          => reqs'[w].limit = settings.max_pending_makeups
    /\ Moves(w, "makeup_count", "makeup_handler")
          => Cardinality(PendingOf(makeups, reqs[w].user))
                < settings.max_pending_makeups
    /\ Moves(w, "makeup_pending", "makeup_insert")
          => Cardinality(PendingOf(makeups, reqs[w].user))
                < settings.max_pending_makeups
    /\ (MakeupPolicyCount(w)
           /\ Cardinality(PendingOf(makeups, reqs[w].user))
                 < settings.max_pending_makeups)
          => reqs'[w].pc = "makeup_handler"
    /\ (MakeupHandler(w)
           /\ reqs[w].id \in BookingIds
           /\ bookings[reqs[w].id].user_id = reqs[w].user
           /\ bookings[reqs[w].id].status \in {"confirmed", "cancelled"})
          => reqs'[w].pc = "makeup_limit"
    /\ (MakeupHandlerCount(w)
           /\ Cardinality(PendingOf(makeups, reqs[w].user))
                 < settings.max_pending_makeups)
          => reqs'[w].pc = "makeup_insert"

(* C11, amended: a client with max_pending_makeups pending make-up         *)
(* requests is denied a new one by the policy and by the handler; a client *)
(* with fewer, as after one request has left pending, passes both counts   *)
(* when the original booking is eligible, and the insert then adds the     *)
(* request as pending when the body carries a reason; without a reason the *)
(* request is answered with a failure and no row is written.               *)
C11_MakeupCapWithReason ==
    [][\A w \in Workers :
          /\ MakeupCounts(w)
          /\ (Moves(w, "makeup_insert", "idle") /\ reqs[w].reason)
                => /\ makeups' = Append(makeups,
                                     PendingMakeup(reqs[w].user, reqs[w].id))
                   /\ last'.result = "created"
          /\ (Moves(w, "makeup_insert", "idle") /\ ~reqs[w].reason)
                => /\ makeups' = makeups
                   /\ last'.result = "failed"]_vars

(* C11 as stated: a client with max_pending_makeups pending make-up        *)
(* requests is denied a new one by the policy and by the handler; a client *)
(* with fewer, as after one request has left pending, passes both counts   *)
(* when the original booking is eligible, and the insert then adds the     *)
(* request as pending.                                                     *)
C11_MakeupCap ==
    [][\A w \in Workers :
          /\ (reqs'[w].pc \in {"makeup_count", "makeup_pending"}
                 /\ reqs'[w] # reqs[w])
                => reqs'[w].limit = settings.max_pending_makeups
          /\ Moves(w, "makeup_count", "makeup_handler")
                => Cardinality(PendingOf(makeups, reqs[w].user))
                      < settings.max_pending_makeups
          /\ Moves(w, "makeup_pending", "makeup_insert")
                => Cardinality(PendingOf(makeups, reqs[w].user))
                      < settings.max_pending_makeups
          /\ (MakeupPolicyCount(w)
                 /\ Cardinality(PendingOf(makeups, reqs[w].user))
                       < settings.max_pending_makeups)
                => reqs'[w].pc = "makeup_handler"
          /\ (MakeupHandler(w)
                 /\ reqs[w].id \in BookingIds
                 /\ bookings[reqs[w].id].user_id = reqs[w].user
                 /\ bookings[reqs[w].id].status \in {"confirmed", "cancelled"})
                => reqs'[w].pc = "makeup_limit"
          /\ (MakeupHandlerCount(w)
                 /\ Cardinality(PendingOf(makeups, reqs[w].user))
                       < settings.max_pending_makeups)
                => reqs'[w].pc = "makeup_insert"
          /\ Moves(w, "makeup_insert", "idle")
                => makeups' = Append(makeups,
                                     PendingMakeup(reqs[w].user, reqs[w].id))]_vars

(* C11 witness: one of the client's first two requests has left pending   *)
(* and a third request of the client was created, which puts the client    *)
(* at the limit of two pending requests                                    *)
C11_Witness ==
    /\ last.op = "makeup" /\ last.result = "created" /\ last.id = 3
    /\ makeups[3].status = "pending"
    /\ \E i \in 1..2 : makeups[i].status # "pending"
    /\ Cardinality(PendingOf(makeups, makeups[3].user_id))
          = settings.max_pending_makeups

(* C12: in every reachable state a client has at most max_pending_makeups  *)
(* make-up requests in status pending.                                     *)
C12_PendingMakeupsCapped ==
    \A u \in Users :
        Cardinality(PendingOf(makeups, u)) <= settings.max_pending_makeups

----------------------------------------------------------------------------
(* months since year 0 of a date *)
MonthIndex(d) == (d \div 10000) * 12 + ((d \div 100) % 100) - 1

(* calendar months a commitment spans, start month through end month *)
MonthsSpanned(r) ==
    IF MonthIndex(r.end_date) < MonthIndex(r.start_date) THEN 0
    ELSE MonthIndex(r.end_date) - MonthIndex(r.start_date) + 1

(* billing cycles of commitment id in a table cs, in insertion order *)
CyclesOf(cs, id) == SelectSeq(cs, LAMBDA c : c.recurring_booking_id = id)

(* lessons a month the billing rule fixes for a frequency *)
LessonsBilled(frequency) ==
    CASE frequency = "weekly" -> 4
      [] frequency = "biweekly" -> 2

(* the cycles of commitment id in cs are one per month of the commitment,  *)
(* each for the fixed number of lessons at the commitment's price          *)
FullyBilled(cs, id) ==
    LET r == recurring[id]
        mine == CyclesOf(cs, id)
    IN  /\ Len(mine) = MonthsSpanned(r)
        /\ \A k \in 1..Len(mine) :
              /\ mine[k].cycle_year * 12 + mine[k].cycle_month - 1
                    = MonthIndex(r.start_date) + k - 1
              /\ mine[k].lessons_count = LessonsBilled(r.frequency)
              /\ mine[k].total_amount = LessonsBilled(r.frequency) * r.price

(* C13: when the creation of a weekly or biweekly commitment succeeds, its *)
(* billing cycles are exactly one per calendar month from its start month  *)
(* through its end month, each with lessons_count 4 (weekly) or 2          *)
(* (biweekly) and total_amount lessons_count x price.                      *)
C13_OneCyclePerMonth ==
    [][\A w \in Workers :
          (Moves(w, "billing", "idle") /\ last'.result = "created")
              => FullyBilled(cycles', reqs[w].id)]_vars

(* C13 witness: a biweekly commitment from 2026-05-01 to 2026-06-30 was    *)
(* created with its two cycles                                             *)
C13_Witness ==
    /\ last.op = "recurring" /\ last.result = "created"
    /\ recurring[last.id].frequency = "biweekly"
    /\ MonthsSpanned(recurring[last.id]) = 2
    /\ Len(CyclesOf(cycles, last.id)) = 2

(* C14: when the creation of a recurring commitment ends, in success or in *)
(* failure, either every month of the commitment has its billing cycle or  *)
(* the commitment has no billing cycle at all.                             *)
C14_BillingAllOrNothing ==
    [][\A w \in Workers :
          (reqs[w].pc \in {"recurring_insert", "billing"} /\ reqs'[w].pc = "idle")
              => \/ \A k \in 1..Len(cycles') :
                       cycles'[k].recurring_booking_id # last'.id
                 \/ FullyBilled(cycles', last'.id)]_vars

----------------------------------------------------------------------------
(* a step is an availability request that was answered *)
AvailabilityAnswered ==
    \/ CalendarAvailabilityRequest
    \/ BookingsAvailabilityRequest
    \/ AvailabilityStep

(* C19: an availability request changes no stored state, and when it asks  *)
(* what the previous request asked, with nothing written in between, it    *)
(* gets the same slots.                                                    *)
C19_AvailabilityIsPureRead ==
    [][AvailabilityAnswered =>
          /\ UNCHANGED <<bookings, payments, settings, makeups, sessions,
                         recurring, cycles>>
          /\ google'.access_token = google.access_token
          /\ (/\ answer.route = answer'.route
              /\ answer.date = answer'.date
              /\ answer.duration = answer'.duration)
                => answer'.slots = answer.slots]_vars

(* candidate starts of a date: every 30 minutes from business-hours start, *)
(* as long as start + duration does not pass business-hours end            *)
Candidates(date, duration) ==
    {t \in {date * SecondsPerDay + settings.business_hours_start * 60
              + k * 30 * 60 : k \in 0..47} :
        t + duration * 60
           <= date * SecondsPerDay + settings.business_hours_end * 60}

(* candidate t of the given duration strictly overlaps no pending or       *)
(* confirmed booking and no reported busy interval                         *)
OpenSlot(t, duration, busy) ==
    /\ \A i \in BookingIds :
          NonTerminal(bookings[i]) =>
              ~(/\ t < bookings[i].lesson_date + bookings[i].duration * 60
                /\ t + duration * 60 > bookings[i].lesson_date)
    /\ \A b \in busy : ~(t < b.end /\ t + duration * 60 > b.start)

(* starts an answer gives as available *)
AnsweredOpen(a) ==
    IF a.route = "calendar"
    THEN {a.slots[k].start : k \in 1..Len(a.slots)}
    ELSE {a.slots[k].start : k \in {j \in 1..Len(a.slots) : a.slots[j].available}}

(* C20: the starts an availability answer gives as available are exactly   *)
(* the 30-minute candidates of the date, for the duration, that strictly   *)
(* overlap no pending or confirmed booking and no reported busy interval.  *)
C20_AvailableIffNoOverlap ==
    answer.route # "none" =>
        AnsweredOpen(answer)
          = {t \in Candidates(answer.date, answer.duration) :
                 OpenSlot(t, answer.duration, answer.busy)}
----------------------------------------------------------------------------
(* C21: for a date inside an active blackout range, an availability answer *)
(* gives no slot of that date as available.                                *)
C21_BlackoutDateHasNoSlot ==
    (answer.route # "none" /\ BlackoutConflict(answer.date))
        => AnsweredOpen(answer) = {}
----------------------------------------------------------------------------
(* C27: every successful reschedule changes the existing booking in place, *)
(* adding no row; it raises that booking's reschedule_count by exactly 1;  *)
(* it sets original_date to the lesson date the booking had before the     *)
(* reschedule when original_date was empty, and otherwise leaves it.       *)
C27_RescheduleInPlace ==
    [][\A w \in Workers :
          Moves(w, "resched_write", "resched_sync") =>
              LET id == reqs[w].id
              IN  /\ Len(bookings') = Len(bookings)
                  /\ \A i \in BookingIds \ {id} : bookings'[i] = bookings[i]
                  /\ bookings'[id].reschedule_count
                        = bookings[id].reschedule_count + 1
                  /\ bookings'[id].original_date
                        = IF bookings[id].original_date = Null
                          THEN bookings[id].lesson_date
                          ELSE bookings[id].original_date]_vars

(* a booking moved from Nov 30 to Nov 10 earlier has been moved again, to  *)
(* Nov 25 or back to Nov 30 at another hour, and still records Nov 30      *)
(* 10:00 as its original date                                              *)
C27_Witness ==
    \E i \in BookingIds :
        /\ bookings[i].reschedule_count = 2
        /\ bookings[i].original_date = Nov30_10
        /\ bookings[i].lesson_date # Nov10_15
        /\ last = Response("reschedule", i, "rescheduled")

(* C28: in every reachable state every booking's status is one of pending, *)
(* confirmed, completed, cancelled, rescheduled.                           *)
C28_StatusInDomain ==
    \A i \in BookingIds : bookings[i].status \in validStatuses
----------------------------------------------------------------------------
(* C25: when the admin marks the payment of a pending booking completed,   *)
(* the booking's status becomes confirmed.                                 *)
C25_CompletedPaymentConfirms ==
    [][\A id \in 1..Len(payments) :
          (/\ \E ref \in PaymentReferences : CompletePayment(id, ref)
           /\ bookings[payments[id].booking_id].status = "pending")
              => bookings'[payments[id].booking_id].status = "confirmed"]_vars

----------------------------------------------------------------------------
(* an event of the calendar that has not been deleted *)
LiveEvent(id) == \E e \in events : e.id = id /\ e.status # "cancelled"

(* C22: no booking is created at a start time whose lesson interval        *)
(* overlaps an event the external calendar holds.                          *)
C22_NoBookingOverBusyTime ==
    [][\A w \in Workers :
          CreateInsert(w) =>
              \A e \in events :
                  e.status # "cancelled" =>
                      ~Overlaps(reqs[w].lesson_date,
                                addMinutes(reqs[w].lesson_date, reqs[w].duration),
                                e.start, e.end)]_vars

(* the response of a request whose calendar call was of the given kind *)
SyncedResponse(r) ==
    IF r.call = "create" THEN Response("create", r.id, "created")
    ELSE IF r.call = "update" THEN Response("reschedule", r.id, "rescheduled")
    ELSE Response("cancel", r.id, "cancelled")

(* C23: when the external-calendar call of a create, reschedule or cancel  *)
(* has failed, the request is answered with success, the answering step    *)
(* changes no booking (the created row, the new lesson date or the         *)
(* cancelled status stays), and the failure is recorded as an error row of *)
(* the sync log.                                                           *)
C23_SyncFailureKeepsLocalChange ==
    [][\A w \in Workers :
          LET r == reqs[w]
          IN  (/\ r.pc = "gcal_done" /\ ~r.synced
               /\ r.call \in {"create", "update", "delete"}
               /\ reqs'[w] # r)
                 => /\ reqs'[w].pc = "idle"
                    /\ last' = SyncedResponse(r)
                    /\ bookings' = bookings
                    /\ r.id \in BookingIds
                    /\ r.call = "delete" => bookings[r.id].status = "cancelled"
                    /\ r.call = "update" => bookings[r.id].reschedule_count > 0
                    /\ Len(sync_log') = Len(sync_log) + 1
                    /\ sync_log'[Len(sync_log')].booking_id = r.id
                    /\ sync_log'[Len(sync_log')].status = "error"]_vars

(* booking 2 was created and answered 201 although its calendar push       *)
(* failed: the row is there, pending, without an event, and the log holds  *)
(* the error                                                               *)
C23_Witness ==
    /\ last = Response("create", 2, "created")
    /\ Len(bookings) = 2
    /\ bookings[2].status = "pending"
    /\ bookings[2].google_calendar_event_id = Null
    /\ \E k \in 1..Len(sync_log) :
          sync_log[k] = SyncLogRow("create", 2, Null, "error")

(* C24: with sync enabled, a cancelled booking keeps no live external      *)
(* calendar event, unless its deletion is still in flight or failed at the *)
(* calendar (an error row of the sync log).                                *)
C24_CancelledHasNoLiveEvent ==
    \A i \in BookingIds :
        (/\ google.calendar_sync_enabled
         /\ bookings[i].status = "cancelled"
         /\ bookings[i].google_calendar_event_id # Null
         /\ LiveEvent(bookings[i].google_calendar_event_id))
            => \/ \E w \in Workers :
                     /\ reqs[w].id = i
                     /\ \/ reqs[w].pc = "cancel_sync"
                        \/ /\ reqs[w].call = "delete"
                           /\ reqs[w].pc \in {"gcal_init", "gcal_list",
                                              "gcal_refresh", "gcal_store",
                                              "gcal_call", "gcal_done"}
               \/ \E k \in 1..Len(sync_log) :
                     /\ sync_log[k].action = "delete"
                     /\ sync_log[k].booking_id = i
                     /\ sync_log[k].status = "error"

(* C29: one call of a calendar service method makes at most two attempts:  *)
(* the call, and one retry after a refreshed credential.                   *)
C29_RetriesAtMostOnce ==
    \A w \in Workers : reqs[w].attempts <= 2

(* C30: every create, reschedule or cancel request in flight is eventually *)
(* answered, whether or not its external-calendar call returns.            *)
C30_RequestsComplete ==
    \A w \in Workers :
        (reqs[w].pc # "idle" /\ reqs[w].call # "sync_create")
            ~> (reqs[w].pc = "idle")
(* the late_cancellation_fee rows recorded for booking i *)
LateFees(i) ==
    {k \in 1..Len(payments) :
        /\ payments[k].booking_id = i
        /\ payments[k].payment_reference = "late_cancellation_fee"}

(* C37: whatever cancel requests a booking receives, a repeated DELETE on  *)
(* an already cancelled or completed booking included, at most one         *)
(* late_cancellation_fee payment exists for it.                            *)
C37_AtMostOneLateFee ==
    \A i \in BookingIds : Cardinality(LateFees(i)) <= 1
(* the lesson intervals [lesson_date, lesson_date + duration) of a and b   *)
(* have an instant in common                                               *)
IntervalsOverlap(a, b) ==
    /\ a.lesson_date < addMinutes(b.lesson_date, b.duration)
    /\ b.lesson_date < addMinutes(a.lesson_date, a.duration)

(* C36: no two bookings in status pending or confirmed have overlapping    *)
(* lesson intervals, whether or not their start timestamps are equal.      *)
C36_NoOverlappingLessons ==
    \A i, j \in BookingIds :
        (i # j /\ NonTerminal(bookings[i]) /\ NonTerminal(bookings[j]))
            => ~IntervalsOverlap(bookings[i], bookings[j])
(* C40: a step of a client's create, reschedule or cancel request changes  *)
(* only bookings of that client, adds only bookings of that client, and    *)
(* records a late-cancellation payment only for a booking of that client.  *)
C40_ClientsTouchOwnBookings ==
    [][\A w \in Workers :
          (reqs[w].pc # "idle" /\ reqs'[w] # reqs[w]) =>
              /\ \A i \in BookingIds :
                     bookings'[i] # bookings[i]
                         => bookings[i].user_id = reqs[w].user
              /\ \A i \in (Len(bookings) + 1)..Len(bookings') :
                     bookings'[i].user_id = reqs[w].user
              /\ \A k \in (Len(payments) + 1)..Len(payments') :
                     payments'[k].payment_reference = "late_cancellation_fee"
                         => bookings[payments'[k].booking_id].user_id
                                = reqs[w].user]_vars

(* a cancel or reschedule request for a live booking of another client was *)
(* answered 'not found', and the booking is as it was created              *)
C40_Witness ==
    /\ last.op \in {"cancel", "reschedule"}
    /\ last.result = "not_found"
    /\ last.id \in BookingIds
    /\ bookings[last.id].status = "pending"
    /\ bookings[last.id].reschedule_count = 0
(* C35: a Saturday session never holds more students than max_students,   *)
(* whatever the interleaving of the join requests.                         *)
C35_SessionWithinCapacity ==
    \A s \in 1..Len(sessions) :
        sessions[s].current_students <= sessions[s].max_students
(* the instructor's own entries of the calendar *)
InstructorEvents == {2}

(* C38: every external event created for a booking is the one referenced   *)
(* by that booking's google_calendar_event_id, or is held by the one push  *)
(* that is about to store it on a booking that has none: no booking gets a *)
(* second event from the create handler, the background sync and the       *)
(* manual sync.                                                            *)
C38_OneEventPerBooking ==
    \A e \in events :
        e.id \notin InstructorEvents =>
            \/ \E i \in BookingIds : bookings[i].google_calendar_event_id = e.id
            \/ \E w \in Workers :
                  /\ reqs[w].pc = "gcal_done"
                  /\ reqs[w].call \in {"create", "sync_create", "full_sync",
                                       "manual_sync"}
                  /\ reqs[w].synced
                  /\ reqs[w].event = e.id
                  /\ reqs[w].id \in BookingIds
                  /\ bookings[reqs[w].id].google_calendar_event_id = Null
(* where a push of a booking stands, from createBookingEvent to the log *)
PushPcs == {"gcal_init", "gcal_list", "gcal_refresh", "gcal_store",
            "gcal_call", "gcal_done", "create_log", "sync_log", "full_log",
            "manual_log"}

(* C32: every push of a booking to the external calendar that ends leaves  *)
(* a sync-log row for that booking with status success or error: the step  *)
(* by which the create handler, a sweep or the manual sync is done with    *)
(* the booking writes that row.                                            *)
C32_EveryPushLogged ==
    [][\A w \in Workers :
          (/\ reqs[w].call \in {"create", "sync_create", "full_sync",
                                "manual_sync"}
           /\ reqs[w].pc \in PushPcs
           /\ \/ reqs'[w].pc \notin PushPcs
              \/ reqs'[w].queue # reqs[w].queue) =>
              /\ Len(sync_log') = Len(sync_log) + 1
              /\ sync_log'[Len(sync_log')].booking_id = reqs[w].id
              /\ sync_log'[Len(sync_log')].status \in {"success", "error"}]_vars
(* booking i is in the future, pending or confirmed, and has no external   *)
(* event id                                                                *)
FutureUnsynced(i) ==
    /\ i \in BookingIds
    /\ NonTerminal(bookings[i])
    /\ bookings[i].lesson_date > now
    /\ bookings[i].google_calendar_event_id = Null

(* C31 as stated: with the sweeps firing again and again and a calendar    *)
(* that accepts calls in the end, a future pending or confirmed booking    *)
(* without an external event id eventually obtains one (unless it stops    *)
(* being such a booking first).                                            *)
C31_UnsyncedEventuallySynced ==
    \A i \in 1..MaxBookings : FutureUnsynced(i) ~> ~FutureUnsynced(i)

(* the admin has calendar sync switched on and the Google credentials are  *)
(* stored in users                                                         *)
SyncOn == google.calendar_sync_enabled /\ google.connected

(* C31: with the sweeps firing again and again and a calendar that accepts *)
(* calls in the end, if from some time on calendar sync stays enabled and  *)
(* the Google credentials stay stored, a future pending or confirmed       *)
(* booking without an external event id eventually obtains one (unless it  *)
(* stops being such a booking first).                                      *)
C31_UnsyncedSyncedWhileSyncOn ==
    \A i \in 1..MaxBookings :
        <>[]SyncOn => (FutureUnsynced(i) ~> ~FutureUnsynced(i))

(* the full sweep gave an event to a booking that had none *)
C31_Witness ==
    \E k \in 1..Len(sync_log) :
        /\ sync_log[k].action = "full_sync"
        /\ sync_log[k].status = "success"
        /\ bookings[sync_log[k].booking_id].google_calendar_event_id
               = sync_log[k].google_event_id
(* C39: each billing cycle of a recurring booking counts 4 lessons when    *)
(* the booking is weekly and 2 when it is biweekly, and its total_amount   *)
(* is that count times the booking's price.                                *)
C39_CyclesFollowFrequency ==
    \A c \in 1..Len(cycles) :
        LET rb == recurring[cycles[c].recurring_booking_id]
        IN  /\ cycles[c].lessons_count
                   = (IF rb.frequency = "weekly" THEN 4 ELSE 2)
            /\ cycles[c].total_amount = cycles[c].lessons_count * rb.price
(* C33: the overdue sweep moves to overdue every pending cycle whose due   *)
(* date is before the current date and no other: no step moves a paid      *)
(* cycle, or a pending cycle due today or later, to overdue.               *)
C33_OverdueIffPendingAndPastDue ==
    [][\A c \in 1..Len(cycles) :
          /\ cycles[c].status = "paid" => cycles'[c].status # "overdue"
          /\ (cycles[c].status = "pending"
                  /\ cycles[c].due_date >= ISODate(now))
                => cycles'[c].status # "overdue"
          /\ (/\ \E w \in Workers : Moves(w, "idle", "overdue_notify")
              /\ cycles[c].status = "pending"
              /\ cycles[c].due_date < ISODate(now))
                => cycles'[c].status = "overdue"]_vars

(* a sweep of today has marked a cycle overdue and left a paid cycle with  *)
(* an earlier due date as it was                                           *)
C33_Witness ==
    /\ \E w \in Workers :
          reqs[w].pc = "overdue_notify" /\ reqs[w].cursor = ISODate(now)
    /\ \E c \in 1..Len(cycles) : cycles[c].status = "overdue"
    /\ \E c \in 1..Len(cycles) :
          cycles[c].status = "paid" /\ cycles[c].due_date < ISODate(now)
    /\ \A c \in 1..Len(cycles) :
          cycles[c].status = "pending" => cycles[c].due_date >= ISODate(now)

(* C34: a billing cycle that the overdue sweep has moved to overdue, of a  *)
(* client with a phone number, has its overdue notice sent.                *)
C34_OverdueIsNotified ==
    \A c \in 1..Len(BilledCycles) :
        (/\ c \in 1..Len(cycles)
         /\ cycles[c].status = "overdue"
         /\ HasPhone(cycles[c].user_id)) ~> (c \in notices)
====
